---------------------------- MODULE Spec2Model ----------------------------
(***************************************************************************)
(* Model of the greyhound-racing data pipeline:                            *)
(*   - the rate-limited dog statistics fetcher                             *)
(*     (src/src/extractors/dog_stats_extractor.py), and                    *)
(*   - the race crawl loop                                                 *)
(*     (src/src/extractors/race_card_extractor.py,                         *)
(*      src/src/utils/browser_utils.py).                                   *)
(*   - the browser session and date loop of extract_race_data,            *)
(*     the staleness check and the meeting enumeration                     *)
(*     (src/src/extractors/race_card_extractor.py), and                    *)
(*   - the stages of run_full_pipeline (src/pipeline.py).                  *)
(* Durations are in hundredths of a second (2.0 s = 200).                  *)
(***************************************************************************)
EXTENDS Integers, Sequences, FiniteSets, TLC

VARIABLES
    \* ---- DogStatsExtractor / extract_dog_stats ----
    max_workers,      \* argument of extract_dog_stats
    unique_dogs,      \* race_data['Dog_Name'].unique()
    request_delay,    \* self.request_delay
    user_agent,       \* self.session.headers['User-Agent'] (index into user_agents)
    task,             \* per dog: the call of _get_dog_stats_with_retry
    outcomes,         \* per dog: the HTTP outcomes its requests met, in order
    backoffs,         \* per dog: number of retry sleeps (time.sleep in the handlers)
    adjusts,          \* per dog: number of _adjust_for_blocking calls
    submitted,        \* pooled mode: number of executor.submit calls made
    seq_i,            \* sequential mode: the loop index i (1-based)
    all_stats,        \* all_stats
    failed_dogs,      \* failed_dogs
    success_dogs,     \* dogs that took the "Stats extracted" branch
    sleeps,           \* number of inter-request time.sleep(delay) calls
    returned,         \* the value extract_dog_stats returned
    \* ---- RaceCardExtractor._extract_from_race_cards ----
    race_card_urls,   \* the target queue (list of race_info dicts)
    race_i,           \* loop index i (0-based)
    race_pc,          \* position inside the loop body
    page,             \* the page source the loop is about to read (blank once read)
    race_url,         \* race_url of the current iteration
    runners,          \* runners of the current iteration
    current_track,    \* current_track
    cache_bust_counter, \* cache_bust_counter
    all_race_data,    \* all_race_data
    bust_calls,       \* number of smart_cache_bust calls made so far
    events,           \* what the current loop iteration did so far, in order
    crawl_result,     \* the value _extract_from_race_cards returned
    site,             \* the pages the site (and the browser cache) can show
    flaky_driver,     \* the driver calls made inside a cache bust can raise
    \* ---- RaceCardExtractor.extract_race_data ----
    mode,             \* argument mode
    start_date,       \* argument / local start_date
    end_date,         \* argument / local end_date
    driver,           \* self.driver: "None", "live" or "quit"
    started,          \* this call created a browser session
    quits,            \* number of driver.quit() calls of this call
    navs,             \* number of driver.get calls of this call
    late_navs,        \* driver.get calls made on a session that was not live
    sess_pc,          \* position inside extract_race_data
    date_cur,         \* cur of _iter_dates_inclusive
    date_last,        \* end of _iter_dates_inclusive (after the swap)
    dates_crawled,    \* the date strings _extract_for_single_date was called with
    day_outcomes,     \* how the crawl of each date (or of today) went
    sess_rows,        \* all_race_data of extract_race_data
    sess_result,      \* how extract_race_data ended
    \* ---- meeting enumeration ----
    enum_mode,        \* "today": _extract_race_card_urls; "historical":
                      \* _extract_results_meeting_links
    meeting_links,    \* the meeting anchors of the page, in page order
    link_i,           \* number of anchors the loop has been through
    processed,        \* processed_meetings / processed: the track names seen
    enum_out,         \* the meetings taken, in order, with the link used
    enum_urls,        \* race_card_urls of _extract_race_card_urls
    enum_pc,          \* position inside the enumeration
    \* ---- GreyhoundPipeline.run_full_pipeline ----
    pipe_mode,        \* argument mode
    pipe_start,       \* argument start_date
    pipe_end,         \* argument end_date
    race_data,        \* what _extract_race_cards returned
    dog_stats,        \* what _extract_dog_statistics returned
    featured,         \* what engineer_features returned
    stages,           \* the steps started, in order
    warned,           \* the warning about missing dog statistics was logged
    pipe_pc,          \* position inside run_full_pipeline
    pipe_result       \* the value run_full_pipeline returned

fetchVars == <<max_workers, unique_dogs, request_delay, user_agent, task, outcomes,
               backoffs, adjusts, submitted, seq_i, all_stats, failed_dogs,
               success_dogs, sleeps, returned>>

crawlVars == <<race_card_urls, race_i, race_pc, page, race_url, runners,
               current_track, cache_bust_counter, all_race_data, bust_calls, events,
               crawl_result, site, flaky_driver>>

sessVars == <<mode, start_date, end_date, driver, started, quits, navs, late_navs,
              sess_pc, date_cur, date_last, dates_crawled, day_outcomes, sess_rows,
              sess_result>>

enumVars == <<enum_mode, meeting_links, link_i, processed, enum_out, enum_urls,
              enum_pc>>

pipeVars == <<pipe_mode, pipe_start, pipe_end, race_data, dog_stats, featured,
              stages, warned, pipe_pc, pipe_result>>

vars == <<fetchVars, crawlVars, sessVars, enumVars, pipeVars>>

\* ------------------------------------------------------------------ bounds
MaxDogs == 3
MaxRows == 1
MaxWorkers == 2
\* Cap on the requests of one key, above max_retries, so that a loop without a
\* ceiling still gives a finite state space.
AttemptCap == 5
MaxTargets == 3
\* Length of the longest single-meeting queue (past the light-bust period).
MaxRun == 9
\* Longest historical range, in days between its two dates.
MaxSpan == 3

\* ------------------------------------------------------- program constants
max_retries == 3
InitialRequestDelay == 200
DelayCap == 1000
NumUserAgents == 4

Min(a, b) == IF a < b THEN a ELSE b

Range(s) == {s[i] : i \in 1..Len(s)}

\* ------------------------------------------------------------ fetch: data
DogNames == <<"Fast Fern", "Swift Sal", "Hove Hero", "Jet Jill", "Top Tiger">>

Dogs == {DogNames[i] : i \in 1..Min(MaxDogs, Len(DogNames))}

\* What one session.get can meet: a status code, or a network error.
Outcomes == {"200", "403", "429", "404", "500", "neterr"}

UserAgents == 0..(NumUserAgents - 1)

NotReturned == [done |-> FALSE, rows |-> <<>>]

None == [none |-> TRUE, rows |-> <<>>]

\* The Dog_Name column of race_data: a dog entered in several races is
\* listed once per race.
DogColumns ==
    UNION { {SubSeq(DogNames, 1, n),
             SubSeq(DogNames, 1, n) \o SubSeq(DogNames, 1, Min(n, 1))}
            : n \in 0..Min(MaxDogs, Len(DogNames)) }

Unique_KeepAll(col) == col

RECURSIVE Unique(_)
\* race_data['Dog_Name'].unique(): the distinct names, in order of first
\* appearance.
Unique(col) ==
    IF col = <<>> THEN <<>>
    ELSE LET front == Unique(SubSeq(col, 1, Len(col) - 1))
         IN  IF col[Len(col)] \in Range(front) THEN front
             ELSE Append(front, col[Len(col)])

\* The rows _extract_history_table_rows yields for a page with n data rows.
HistoryRows(dog_name, n) == [j \in 1..n |-> [Dog |-> dog_name, Row |-> j]]

\* Python truthiness of a stats value: None and [] are falsy.
Truthy(stats) == (~stats.none) /\ Len(stats.rows) > 0


\* ------------------------------------------------- fetch: pure functions

\* The body of the try block of _get_dog_stats: session.get, raise_for_status,
\* _parse_dog_stats.  A network error raises RequestException, a 4xx/5xx status
\* raises HTTPError, a 200 page parses to n history rows.
RequestResult(dog_name, o, n) ==
    IF o = "200"
    THEN [kind |-> "return", status |-> o,
          value |-> [none |-> FALSE, rows |-> HistoryRows(dog_name, n)]]
    ELSE IF o = "neterr"
    THEN [kind |-> "RequestException", status |-> o, value |-> None]
    ELSE [kind |-> "HTTPError", status |-> o, value |-> None]

GetDogStats_Raises(dog_name, o, n) == RequestResult(dog_name, o, n)

\* _get_dog_stats: the try block, and "except Exception: return None" around it.
GetDogStats(dog_name, o, n) ==
    LET r == RequestResult(dog_name, o, n)
    IN  IF r.kind = "return"
        THEN r
        ELSE [kind |-> "return", status |-> o, value |-> None]

\* _adjust_for_blocking: the new request_delay, min(request_delay * 1.5, 10.0).
AdjustForBlocking(delay) == Min((delay * 3) \div 2, DelayCap)

\* One iteration of the loop of _get_dog_stats_with_retry, given what
\* _get_dog_stats did (res) in iteration number attempt (0-based): either the
\* function returns value, or the loop continues (after a backoff sleep, and
\* after _adjust_for_blocking when adjust is set).
RetryHandler(res, attempt) ==
    LET ret(v)  == [next |-> "return", value |-> v, adjust |-> FALSE, sleep |-> FALSE]
        cont(a) == [next |-> "continue", value |-> None, adjust |-> a, sleep |-> TRUE]
        more    == attempt < max_retries - 1
    IN  IF res.kind = "return" THEN ret(res.value)
        ELSE IF res.kind = "HTTPError" /\ res.status = "403"
             THEN IF more THEN cont(TRUE) ELSE ret(None)
        ELSE IF res.kind = "HTTPError" /\ res.status = "429"
             THEN IF more THEN cont(FALSE) ELSE ret(None)
        ELSE IF res.kind = "HTTPError" /\ res.status = "404"
             THEN ret(None)
        ELSE IF res.kind \in {"HTTPError", "RequestException"}
             THEN IF more THEN cont(FALSE) ELSE ret(None)
        ELSE ret(None)

\* Mutant: a None result is retried, with no ceiling on the attempts.
RetryStep_NoCeiling(res, attempt) ==
    LET h == RetryHandler(res, attempt)
    IN  IF h.next = "return" /\ h.value.none
        THEN [next |-> "continue", value |-> None, adjust |-> FALSE, sleep |-> TRUE]
        ELSE h

\* Mutant: every error status, 404 included, is handled as a retryable error.
RetryStep_Retry404(res, attempt) ==
    LET h == RetryHandler(res, attempt)
    IN  IF res.status # "200" /\ attempt < max_retries - 1
        THEN [next |-> "continue", value |-> None, adjust |-> FALSE, sleep |-> TRUE]
        ELSE h

\* The loop itself: "for attempt in range(self.max_retries)" and the final
\* "return None" once the range is exhausted.
RetryStep(res, attempt) ==
    LET h == RetryHandler(res, attempt)
    IN  IF h.next = "continue" /\ attempt + 1 >= max_retries
        THEN [h EXCEPT !.next = "return"]
        ELSE h

\* Mutant: "if stats is not None:" instead of "if stats:".
CollectBranch_NotNone(stats) == IF ~stats.none THEN "success" ELSE "failed"

\* Mutant: a successful request speeds the fetcher up again (delay * 0.8).
NextDelay_DecayOnSuccess(step, delay) ==
    IF step.adjust THEN AdjustForBlocking(delay)
    ELSE IF step.next = "return" /\ ~step.value.none THEN (delay * 4) \div 5
    ELSE delay

\* self.request_delay after one iteration of the retry loop: only the 403
\* handler's call of _adjust_for_blocking assigns it.
NextDelay(step, delay) == IF step.adjust THEN AdjustForBlocking(delay) ELSE delay

\* The branch extract_dog_stats takes for the value a call returned:
\* "if stats:" adds the rows, the else branch appends to failed_dogs.
CollectBranch(stats) == IF Truthy(stats) THEN "success" ELSE "failed"

\* Mutant: the loop sleeps after every key, the last one included.
SleepAfter_Always(i, n) == i <= n

\* "if i < len(unique_dogs)": whether the sequential loop sleeps after key i.
SleepAfter(i, n) == i < n

\* Mutant: the loop breaks at the first key that fails.
SeqNext_BreakOnFailure(i, n, stats) == IF Truthy(stats) THEN i + 1 ELSE n + 1

\* Sequential mode: the index the loop of n keys goes to after key i ended with
\* the value stats (the loop never breaks: always the next one).
SeqNext(i, n, stats) == i + 1

\* ------------------------------------------- fetch: extract_dog_stats

NumDogs == Len(unique_dogs)

Sequential == max_workers = 1

NewTask == [state |-> "new", attempt |-> 0, result |-> None]

Running == {k \in Dogs : task[k].state = "running"}

NoUrl == [kind |-> "none", id |-> 0, t |-> FALSE]

\* The state of the crawl loop while no crawl is running.
CrawlIdle ==
    /\ race_card_urls = <<>>
    /\ race_i = 0
    /\ race_pc = "idle"
    /\ page = [kind |-> "blank", dogs |-> <<>>, header |-> FALSE]
    /\ race_url = NoUrl
    /\ runners = <<>>
    /\ current_track = "None"
    /\ cache_bust_counter = 0
    /\ all_race_data = <<>>
    /\ bust_calls = 0
    /\ events = <<>>
    /\ crawl_result = [done |-> FALSE, rows |-> <<>>]
    /\ site = {}
    /\ flaky_driver = FALSE

\* A date argument: None, the empty string, or a "YYYY-MM-DD" string with its
\* three numbers.
NoneDate == [kind |-> "none", y |-> 0, m |-> 0, d |-> 0]

\* A datetime.date that was never assigned.
NoDay == [year |-> 0, month |-> 0, day |-> 0]

\* extract_race_data has not returned.
NoResult == [value |-> "none", error |-> "", rows |-> <<>>]

\* The state of a RaceCardExtractor on which extract_race_data is not running.
SessIdle ==
    /\ mode = "today"
    /\ start_date = NoneDate
    /\ end_date = NoneDate
    /\ driver = "None"
    /\ started = FALSE
    /\ quits = 0
    /\ navs = 0
    /\ late_navs = 0
    /\ sess_pc = "idle"
    /\ date_cur = NoDay
    /\ date_last = NoDay
    /\ dates_crawled = <<>>
    /\ day_outcomes = <<>>
    /\ sess_rows = <<>>
    /\ sess_result = NoResult

\* No meeting enumeration is running.
EnumIdle ==
    /\ enum_mode = "today"
    /\ meeting_links = <<>>
    /\ link_i = 0
    /\ processed = {}
    /\ enum_out = <<>>
    /\ enum_urls = <<>>
    /\ enum_pc = "idle"

\* A DataFrame that was never assigned, the value None, and a frame of n rows.
Unset == [kind |-> "unset", n |-> 0]

NoFrame == [kind |-> "None", n |-> 0]

Frame(n) == [kind |-> "df", n |-> n]

\* No pipeline run is in progress.
PipeIdle ==
    /\ pipe_mode = "today"
    /\ pipe_start = NoneDate
    /\ pipe_end = NoneDate
    /\ race_data = Unset
    /\ dog_stats = Unset
    /\ featured = Unset
    /\ stages = <<>>
    /\ warned = FALSE
    /\ pipe_pc = "idle"
    /\ pipe_result = "none"

\* Nothing but the part under study runs.
RestIdle == EnumIdle /\ PipeIdle

\* DogStatsExtractor.__init__ and the entry of extract_dog_stats.
InitFetch ==
    /\ max_workers \in 1..MaxWorkers
    /\ unique_dogs \in {Unique(col) : col \in DogColumns}
    /\ request_delay = InitialRequestDelay
    /\ user_agent = 0
    /\ task = [k \in Dogs |-> NewTask]
    /\ outcomes = [k \in Dogs |-> <<>>]
    /\ backoffs = [k \in Dogs |-> 0]
    /\ adjusts = [k \in Dogs |-> 0]
    /\ submitted = 0
    /\ seq_i = 1
    /\ all_stats = <<>>
    /\ failed_dogs = <<>>
    /\ success_dogs = <<>>
    /\ sleeps = 0
    /\ returned = NotReturned

\* Whether the call of _get_dog_stats_with_retry for key k can issue a request:
\* in sequential mode it is the call of the current loop iteration, in pooled
\* mode the task a worker is running.
CanAttempt(k) ==
    IF Sequential
    THEN /\ seq_i <= NumDogs
         /\ unique_dogs[seq_i] = k
         /\ task[k].state \in {"new", "running"}
    ELSE task[k].state = "running"

\* One iteration of the retry loop for key k: the request meets outcome o (a
\* 200 page holding n history rows); ua is the user agent random.choice picks
\* if _adjust_for_blocking runs.
Attempt(k) ==
    /\ ~returned.done
    /\ CanAttempt(k)
    /\ Len(outcomes[k]) < AttemptCap
    /\ \E o \in Outcomes, n \in 0..MaxRows, ua \in UserAgents :
         LET res  == GetDogStats(k, o, n)
             step == RetryStep(res, task[k].attempt)
         IN  /\ o # "200" => n = 0
             /\ (~step.adjust) => ua = user_agent
             /\ outcomes' = [outcomes EXCEPT ![k] = Append(@, o)]
             /\ task' = [task EXCEPT ![k] =
                           IF step.next = "return"
                           THEN [state |-> "done", attempt |-> @.attempt,
                                 result |-> step.value]
                           ELSE [state |-> "running", attempt |-> @.attempt + 1,
                                 result |-> None]]
             /\ request_delay' = NextDelay(step, request_delay)
             /\ user_agent' = IF step.adjust THEN ua ELSE user_agent
             /\ adjusts' = [adjusts EXCEPT ![k] = IF step.adjust THEN @ + 1 ELSE @]
             /\ backoffs' = [backoffs EXCEPT ![k] = IF step.sleep THEN @ + 1 ELSE @]
    /\ UNCHANGED <<max_workers, unique_dogs, submitted, seq_i, all_stats,
                   failed_dogs, success_dogs, sleeps, returned, crawlVars, sessVars,
                   enumVars, pipeVars>>

\* Mutant: the else is lost, failed_dogs.append runs for every key.
Collect_NoElse(dog_name, stats) ==
    /\ failed_dogs' = Append(failed_dogs, dog_name)
    /\ IF CollectBranch(stats) = "success"
       THEN /\ all_stats' = all_stats \o stats.rows
            /\ success_dogs' = Append(success_dogs, dog_name)
       ELSE UNCHANGED <<all_stats, success_dogs>>

\* What both modes do with the value stats a call for dog_name returned.
Collect(dog_name, stats) ==
    IF CollectBranch(stats) = "success"
    THEN /\ all_stats' = all_stats \o stats.rows
         /\ success_dogs' = Append(success_dogs, dog_name)
         /\ failed_dogs' = failed_dogs
    ELSE /\ failed_dogs' = Append(failed_dogs, dog_name)
         /\ UNCHANGED <<all_stats, success_dogs>>

\* Sequential mode: the rest of the loop body after the call returned: collect
\* the value, sleep unless this was the last key, go to the next key.
SeqCollect ==
    /\ Sequential
    /\ ~returned.done
    /\ seq_i <= NumDogs
    /\ task[unique_dogs[seq_i]].state = "done"
    /\ LET k == unique_dogs[seq_i]
       IN  /\ Collect(k, task[k].result)
           /\ task' = [task EXCEPT ![k].state = "collected"]
           /\ sleeps' = IF SleepAfter(seq_i, NumDogs) THEN sleeps + 1 ELSE sleeps
           /\ seq_i' = SeqNext(seq_i, NumDogs, task[k].result)
    /\ UNCHANGED <<max_workers, unique_dogs, request_delay, user_agent, outcomes,
                   backoffs, adjusts, submitted, returned, crawlVars, sessVars,
                   enumVars, pipeVars>>

\* Pooled mode: executor.submit for the next key of unique_dogs.
Submit ==
    /\ ~Sequential
    /\ submitted < NumDogs
    /\ task' = [task EXCEPT ![unique_dogs[submitted + 1]].state = "queued"]
    /\ submitted' = submitted + 1
    /\ UNCHANGED <<max_workers, unique_dogs, request_delay, user_agent, outcomes,
                   backoffs, adjusts, seq_i, all_stats, failed_dogs, success_dogs,
                   sleeps, returned, crawlVars, sessVars,
                   enumVars, pipeVars>>

\* Pooled mode: a free worker of the pool takes the oldest queued task.
WorkerStart ==
    /\ ~Sequential
    /\ Cardinality(Running) < max_workers
    /\ \E j \in 1..submitted :
         /\ task[unique_dogs[j]].state = "queued"
         /\ \A h \in 1..(j - 1) : task[unique_dogs[h]].state # "queued"
         /\ task' = [task EXCEPT ![unique_dogs[j]].state = "running"]
    /\ UNCHANGED <<max_workers, unique_dogs, request_delay, user_agent, outcomes,
                   backoffs, adjusts, submitted, seq_i, all_stats, failed_dogs,
                   success_dogs, sleeps, returned, crawlVars, sessVars,
                   enumVars, pipeVars>>

\* Pooled mode: as_completed hands over a finished future, in any order.
PoolCollect(k) ==
    /\ ~Sequential
    /\ submitted = NumDogs
    /\ task[k].state = "done"
    /\ Collect(k, task[k].result)
    /\ task' = [task EXCEPT ![k].state = "collected"]
    /\ UNCHANGED <<max_workers, unique_dogs, request_delay, user_agent, outcomes,
                   backoffs, adjusts, submitted, seq_i, sleeps, returned, crawlVars,
                   sessVars,
                   enumVars, pipeVars>>

\* Whether the loop over the keys (either mode) has ended.
LoopEnded ==
    IF Sequential
    THEN seq_i > NumDogs
    ELSE /\ submitted = NumDogs
         /\ \A k \in Range(unique_dogs) : task[k].state = "collected"

\* The end of extract_dog_stats: pd.DataFrame(all_stats), or an empty DataFrame.
ReturnStats ==
    /\ ~returned.done
    /\ LoopEnded
    /\ returned' = [done |-> TRUE, rows |-> all_stats]
    /\ UNCHANGED <<max_workers, unique_dogs, request_delay, user_agent, task,
                   outcomes, backoffs, adjusts, submitted, seq_i, all_stats,
                   failed_dogs, success_dogs, sleeps, crawlVars, sessVars,
                   enumVars, pipeVars>>

NextFetch ==
    \/ \E k \in Dogs : Attempt(k)
    \/ SeqCollect
    \/ Submit
    \/ WorkerStart
    \/ \E k \in Dogs : PoolCollect(k)
    \/ ReturnStats

\* A fetch invocation on its own: no crawl is running.
FetchOnly == InitFetch /\ CrawlIdle /\ SessIdle /\ RestIdle

SpecFetch == FetchOnly /\ [][NextFetch]_vars

FairSpecFetch == SpecFetch /\ WF_vars(NextFetch)

\* ------------------------------------------------------ fetch: claims

Count(x, s) == Cardinality({i \in 1..Len(s) : s[i] = x})

RowsOf(k) == SelectSeq(all_stats, LAMBDA r : r.Dog = k)

Terminal(k) == task[k].state \in {"done", "collected"}

Last(s) == s[Len(s)]

\* C2: for every dog key and every sequence of HTTP outcomes, the requests made
\* for the key never exceed max_retries (3), a call that is still running has
\* attempts left, and the call for every key reaches a terminal outcome (rows
\* or None) and stays there.
C2_RetryCeiling ==
    /\ [](\A k \in Dogs : /\ Len(outcomes[k]) <= 3
                          /\ ~Terminal(k) => task[k].attempt < 3
                          /\ task[k].attempt <= Len(outcomes[k]))
    /\ <>[](\A k \in Range(unique_dogs) : Terminal(k))

\* C2 witness: a key met a rate-limit answer and its call has ended.
C2_Witness ==
    \E k \in Dogs : /\ outcomes[k] # <<>>
                    /\ outcomes[k][1] = "429"
                    /\ task[k].state = "done"

\* C3: a key that met a 404 made exactly one request, slept no backoff, did not
\* touch the shared delay, and its call ended with no record; once collected it
\* is listed as failed and has no rows.
C3_NotFoundTerminal ==
    \A k \in Dogs :
        (\E j \in 1..Len(outcomes[k]) : outcomes[k][j] = "404") =>
            /\ Len(outcomes[k]) = 1
            /\ backoffs[k] = 0
            /\ adjusts[k] = 0
            /\ Terminal(k)
            /\ task[k].result = None
            /\ RowsOf(k) = <<>>
            /\ k \notin Range(success_dogs)
            /\ task[k].state = "collected" => Count(k, failed_dogs) = 1

\* C3 witness (scenario C): two keys fetched sequentially, both answered 404,
\* the fetch has returned.
C3_Witness ==
    /\ Sequential
    /\ NumDogs = 2
    /\ returned.done
    /\ \A k \in Range(unique_dogs) : outcomes[k] = <<"404">>
    /\ failed_dogs = unique_dogs
    /\ request_delay = 200

\* C4 (as claimed): a 403 on an attempt that is not the last allowed one makes
\* the fetcher adapt (raise the shared delay) and attempt the key again; a key
\* answered 403 every time ends failed after exactly 3 attempts.
C4_Retry403 ==
    \A k \in Dogs :
        \A j \in 1..Len(outcomes[k]) :
            (outcomes[k][j] = "403") =>
                /\ j < 3 => /\ adjusts[k] >= 1
                            /\ request_delay > 200
                            /\ Terminal(k) => Len(outcomes[k]) > j
                /\ (Terminal(k) /\ \A h \in 1..Len(outcomes[k]) : outcomes[k][h] = "403")
                      => (Len(outcomes[k]) = 3 /\ task[k].result = None)

\* C5 (as claimed): a 429, another HTTP error or a network error on an attempt
\* that is not the last allowed one is followed by another attempt for the key,
\* the shared delay unchanged; a later 200 yields the key's rows.
C5_RetryTransient ==
    \A k \in Dogs :
        \A j \in 1..Len(outcomes[k]) :
            (outcomes[k][j] \in {"429", "500", "neterr"}) =>
                /\ adjusts[k] = 0
                /\ (j < 3 /\ Terminal(k)) => Len(outcomes[k]) > j
                /\ (Terminal(k) /\ Last(outcomes[k]) = "200")
                      => ~task[k].result.none

\* C6: the shared delay starts at 2.0, stays within [2.0, 10.0], and no step
\* lowers it.
C6_DelayMonotone ==
    /\ request_delay = 200
    /\ [](200 <= request_delay /\ request_delay <= 1000)
    /\ [][request_delay' >= request_delay]_vars

\* C6 witness: a key was answered 403, its call has ended, the delay is in range.
C6_Witness ==
    \E k \in Dogs : /\ outcomes[k] # <<>>
                    /\ outcomes[k][1] = "403"
                    /\ Terminal(k)
                    /\ request_delay >= 200

\* C7: no key is ever counted twice or as both success and failure, a success
\* has exactly the rows its call returned in the result and a failure has none;
\* when extract_dog_stats returns, every unique key is exactly one of the two.
C7_OneTerminalOutcome ==
    \A k \in Dogs :
        /\ Count(k, success_dogs) + Count(k, failed_dogs) <= 1
        /\ k \in Range(success_dogs) => RowsOf(k) = task[k].result.rows
        /\ k \notin Range(success_dogs) => RowsOf(k) = <<>>
        /\ (returned.done /\ k \in Range(unique_dogs))
              => Count(k, success_dogs) + Count(k, failed_dogs) = 1
        /\ k \notin Range(unique_dogs)
              => Count(k, success_dogs) + Count(k, failed_dogs) = 0

\* C7 witness: a pooled fetch has returned with a success and a failure.
C7_Witness ==
    /\ ~Sequential
    /\ returned.done
    /\ success_dogs # <<>>
    /\ failed_dogs # <<>>

\* C8: when extract_dog_stats returns, every key was requested, whatever
\* happened to the others; a key behind a failed key of the sequential loop is
\* still reached; and if every key failed the returned table is empty.
C8_BestEffort ==
    /\ returned.done =>
          /\ \A k \in Range(unique_dogs) : Len(outcomes[k]) >= 1
          /\ Len(failed_dogs) = NumDogs => returned.rows = <<>>
          /\ returned.rows = all_stats
    /\ (Sequential /\ ~returned.done) => seq_i = Len(success_dogs) + Len(failed_dogs) + 1

\* C8 witness: the first key failed, a later key succeeded, the fetch returned.
C8_Witness ==
    /\ returned.done
    /\ NumDogs >= 2
    /\ unique_dogs[1] \in Range(failed_dogs)
    /\ unique_dogs[2] \in Range(success_dogs)

\* C9 (as claimed): a key whose page was fetched (200) and parsed to zero rows
\* is reported among the successes, not among the failures.
C9_EmptyIsSuccess ==
    \A k \in Dogs :
        (/\ task[k].state = "collected"
         /\ Last(outcomes[k]) = "200"
         /\ task[k].result.rows = <<>>)
            => (k \in Range(success_dogs) /\ k \notin Range(failed_dogs))

\* C9 (amended): a key whose page was fetched (200) and parsed to zero rows is
\* listed in failed_dogs and is not among the successes.
C9_EmptyIsFailure ==
    \A k \in Dogs :
        (/\ task[k].state = "collected"
         /\ Last(outcomes[k]) = "200"
         /\ task[k].result.rows = <<>>)
            => (k \in Range(failed_dogs) /\ k \notin Range(success_dogs))

\* C9 witness: a collected key whose 200 page held no rows.
C9_Witness ==
    \E k \in Dogs : /\ task[k].state = "collected"
                    /\ outcomes[k] = <<"200">>
                    /\ ~task[k].result.none
                    /\ task[k].result.rows = <<>>

\* C10: with max_workers = 1 a key is requested only after every earlier key
\* was collected, the loop has slept once after each collected key except the
\* last of the list, and at the return n - 1 sleeps were made (0 for n <= 1).
C10_SequentialSpacing ==
    Sequential =>
        /\ \A i \in 1..NumDogs : \A j \in (i + 1)..NumDogs :
              outcomes[unique_dogs[j]] # <<>> => task[unique_dogs[i]].state = "collected"
        /\ sleeps = Min(seq_i, IF NumDogs = 0 THEN 1 ELSE NumDogs) - 1
        /\ returned.done => sleeps = (IF NumDogs <= 1 THEN 0 ELSE NumDogs - 1)
        /\ submitted = 0

\* C10 witness: a sequential fetch of at least three keys has returned.
C10_Witness ==
    /\ Sequential
    /\ returned.done
    /\ NumDogs >= 3
    /\ sleeps = NumDogs - 1

\* The order a task goes through its states.
TaskOrder ==
    {<<"new", "queued">>, <<"queued", "running">>, <<"running", "done">>,
     <<"done", "collected">>}

\* C31: in pooled mode every key is one task: the keys handed to the pool are
\* distinct, a task goes once through queued, running, done and collected and
\* never back, requests for a key are made one per step and only while its
\* task is running, and no more than max_workers tasks run at a time.
C31_OneTaskPerKey ==
    /\ [](~Sequential =>
            /\ \A i, j \in 1..NumDogs : i # j => unique_dogs[i] # unique_dogs[j]
            /\ Cardinality(Running) <= max_workers
            /\ \A k \in Dogs : outcomes[k] # <<>> => task[k].state # "new")
    /\ [][~Sequential =>
            \A k \in Dogs :
                /\ task'[k].state # task[k].state
                      => <<task[k].state, task'[k].state>> \in TaskOrder
                /\ outcomes'[k] # outcomes[k]
                      => /\ task[k].state = "running"
                         /\ Len(outcomes'[k]) = Len(outcomes[k]) + 1]_vars

\* C31 witness: a pool of two workers has two keys in flight, a third key
\* waits in the queue.
C31_Witness ==
    /\ max_workers = 2
    /\ Cardinality(Running) = 2
    /\ \E k \in Dogs : task[k].state = "queued"

WindowSize == 6
LightBustEvery == 8
TimestampEvery == 5

\* The dog names the site's pages can show.
CardDogs == <<"Fast Fern", "Swift Sal">>

\* The race_info dicts the enumerator can put in the queue: card links of
\* two meetings and a result link of a results meeting (whose number and
\* time can be unparsed, 'TBC').  A url is "#card/race_id=<id>" (kind "card")
\* or "#result-meeting-result/race_id=<id>" (kind "result").
Targets ==
    { [track |-> "Hove", race_number |-> "1", race_time |-> "10:00",
       url |-> [kind |-> "card", id |-> 1]],
      [track |-> "Hove", race_number |-> "TBC", race_time |-> "TBC",
       url |-> [kind |-> "result", id |-> 2]],
      [track |-> "Crayford", race_number |-> "1", race_time |-> "10:00",
       url |-> [kind |-> "card", id |-> 3]] }

SeqsUpTo(S, n) == UNION {[1..m -> S] : m \in 0..n}

\* The dog lists a page can hold: the first n dogs, in card order.
RunnerLists == { [j \in 1..n |-> j] : n \in 0..Len(CardDogs) }

DogList(ds) == [j \in 1..Len(ds) |-> CardDogs[ds[j]]]

BlankPage == [kind |-> "blank", dogs |-> <<>>, header |-> FALSE]

\* What the session can show after a navigation: a page with neither marker
\* (not ready), a card page (div#sortContainer with its runner blocks), or a
\* results page (div.container a.details entries), with or without its
\* h3#pagerResultTime / span#circle-race-title header.
Pages ==
    {BlankPage}
    \cup {[kind |-> "card", dogs |-> DogList(ds), header |-> FALSE] : ds \in RunnerLists}
    \cup {[kind |-> "results", dogs |-> DogList(ds), header |-> h] :
            ds \in RunnerLists \ {<<>>}, h \in BOOLEAN}

\* The time and race number a results page header shows.
HeaderTime == "11:01"

HeaderNumber == "3"

\* -------------------------------------------------- crawl: pure functions

\* The readiness condition of the WebDriverWait: #sortContainer or
\* div.container a.details present.
Ready(pg) == pg.kind \in {"card", "results"}

\* _is_results_page.
IsResultsPage(pg) == pg.kind = "results"

\* "'#result-' in race_url".
IsResultUrl(url) == url.kind = "result"

\* race_info after _extract_runners_from_result_page ran on page pg: a 'TBC'
\* time / number is filled in from the page header.
EnrichedInfo(race_info, pg) ==
    [race_info EXCEPT
        !.race_time = IF pg.header /\ @ = "TBC" THEN HeaderTime ELSE @,
        !.race_number = IF pg.header /\ @ = "TBC" THEN HeaderNumber ELSE @]

RunnerRecord(race_info, dog_name) ==
    [Track |-> race_info.track, Race_Number |-> race_info.race_number,
     Race_Time |-> race_info.race_time, Dog_Name |-> dog_name]

\* _extract_runners_from_result_page: one record per a.details entry.
ExtractResultPage(race_info, pg) ==
    IF pg.kind = "results"
    THEN [j \in 1..Len(pg.dogs) |-> RunnerRecord(EnrichedInfo(race_info, pg), pg.dogs[j])]
    ELSE <<>>

\* _extract_runners_from_race_card: one record per runnerBlock of #sortContainer,
\* nothing when the container is absent.
ExtractRaceCard(race_info, pg) ==
    IF pg.kind = "card"
    THEN [j \in 1..Len(pg.dogs) |-> RunnerRecord(race_info, pg.dogs[j])]
    ELSE <<>>

DogNameSet(records) == {records[j].Dog_Name : j \in 1..Len(records)}

RecentRecords_WholeHistory(data) == data

\* The records the check compares with: all_race_data[-recent_races_count:].
RecentRecords(data) ==
    SubSeq(data, Len(data) - Min(WindowSize, Len(data)) + 1, Len(data))

\* _check_for_duplicates (its truth value).
CheckForDuplicates(data, new_runners) ==
    IF Len(data) = 0 THEN FALSE
    ELSE LET overlap == DogNameSet(RecentRecords(data)) \cap DogNameSet(new_runners)
         IN  /\ overlap # {}
             /\ 2 * Cardinality(overlap) > Cardinality(DogNameSet(new_runners))

\* The cache bust the loop makes before navigating to target i.
BustDecision_NoLight(i, track, cur) ==
    IF cur # track THEN "aggressive" ELSE "none"

BustDecision_SkipFirst(i, track, cur) ==
    IF cur # track /\ cur # "None" THEN "aggressive"
    ELSE IF i % LightBustEvery = 0 THEN "light"
    ELSE "none"

BustDecision(i, track, cur) ==
    IF cur # track THEN "aggressive"
    ELSE IF i % LightBustEvery = 0 THEN "light"
    ELSE "none"

\* What the readiness wait does with the page it finds: nothing when the page
\* is ready, one driver.refresh() when the wait times out.
WaitForContent(pg) == IF Ready(pg) THEN <<>> ELSE <<"refresh">>

NeedsRetry_AnyRunners(data, found) == found # <<>>

NeedsRetry_EvenIfEmpty(data, found) ==
    found = <<>> \/ CheckForDuplicates(data, found)

\* "if runners:" and "if self._check_for_duplicates(...)": whether the
\* iteration goes to _retry_with_cache_bust.
NeedsRetry(data, found) == found # <<>> /\ CheckForDuplicates(data, found)

AfterRetry_UntilFresh(found) == IF found = <<>> THEN "retry" ELSE "loop"

\* Where the iteration goes after _retry_with_cache_bust returned: on to the
\* "if runners:" append / skip and the next target, whatever came back.
AfterRetry(found) == "loop"

RetryExtract_SameAsFirst(race_info, url, pg) ==
    IF IsResultsPage(pg) \/ IsResultUrl(url)
    THEN ExtractResultPage(race_info, pg)
    ELSE ExtractRaceCard(race_info, pg)

\* The extraction of _retry_with_cache_bust: always
\* _extract_runners_from_race_card, whatever the page or the URL is.
RetryExtract(race_info, url, pg) == ExtractRaceCard(race_info, pg)

Accepted_Replace(data, found) == found

Accepted_FirstOnly(data, found) == data \o SubSeq(found, 1, 1)

\* all_race_data.extend(runners)
Accepted(data, found) == data \o found

BustReturns_Propagates(failed) == ~failed

\* Whether smart_cache_bust returns normally when a driver call inside it
\* failed: its try / except swallows the failure.
BustReturns(failed) == TRUE

\* What a call of smart_cache_bust of the given kind leaves in the log.
BustEvents(bust, failed) ==
    IF bust = "none" THEN <<>>
    ELSE <<"bust_" \o bust>> \o (IF failed THEN <<"bust_error">> ELSE <<>>)

StartEvents_NavigateFirst(bustEvents) == <<"get">> \o bustEvents

\* The start of an iteration: the cache-bust decision and bust, then
\* driver.get(race_url).
StartEvents(bustEvents) == bustEvents \o <<"get">>

AfterError_Abort(i, n) == n

\* The loop index after the except branch of target i of n: "continue".
AfterError(i, n) == i + 1

\* ------------------------------------- crawl: _extract_from_race_cards

NumRaces == Len(race_card_urls)

\* The state of the fetcher while no fetch is running.
FetchIdle ==
    /\ max_workers = 1
    /\ unique_dogs = <<>>
    /\ request_delay = InitialRequestDelay
    /\ user_agent = 0
    /\ task = [k \in Dogs |-> NewTask]
    /\ outcomes = [k \in Dogs |-> <<>>]
    /\ backoffs = [k \in Dogs |-> 0]
    /\ adjusts = [k \in Dogs |-> 0]
    /\ submitted = 0
    /\ seq_i = 1
    /\ all_stats = <<>>
    /\ failed_dogs = <<>>
    /\ success_dogs = <<>>
    /\ sleeps = 0
    /\ returned = NotReturned

\* Entry of _extract_from_race_cards with a queue of race targets.
InitCrawl ==
    /\ race_card_urls \in SeqsUpTo(Targets, MaxTargets)
    /\ site = Pages
    /\ flaky_driver = FALSE
    /\ race_i = 0
    /\ race_pc = "loop"
    /\ page = BlankPage
    /\ race_url = NoUrl
    /\ runners = <<>>
    /\ current_track = "None"
    /\ cache_bust_counter = 0
    /\ all_race_data = <<>>
    /\ bust_calls = 0
    /\ events = <<>>
    /\ crawl_result = [done |-> FALSE, rows |-> <<>>]

\* Top of the loop body for target race_i: the cache-bust decision (and bust,
\* inside which a driver call may fail), then driver.get(race_url), which
\* loads page pg, or raises (the iteration then ends in the except branch).
BeginRace ==
    /\ race_pc = "loop"
    /\ race_i < NumRaces
    /\ \E failed \in {FALSE, flaky_driver}, raised \in BOOLEAN :
       LET race_info == race_card_urls[race_i + 1]
           bust == BustDecision(race_i, race_info.track, current_track)
           url == [kind |-> race_info.url.kind, id |-> race_info.url.id,
                   t |-> (race_i % TimestampEvery = 0)]
           bustEvents == BustEvents(bust, failed)
       IN  /\ failed => bust # "none"
           /\ bust_calls' = IF bust = "none" THEN bust_calls ELSE bust_calls + 1
           /\ IF BustReturns(failed)
              THEN /\ current_track' = IF bust = "aggressive" THEN race_info.track
                                       ELSE current_track
                   /\ cache_bust_counter' = IF bust = "none" THEN cache_bust_counter
                                            ELSE cache_bust_counter + 1
                   /\ race_url' = url
                   /\ events' = StartEvents(bustEvents)
                                 \o (IF raised THEN <<"error">> ELSE <<>>)
                   /\ IF raised
                      THEN /\ race_i' = AfterError(race_i, NumRaces)
                           /\ UNCHANGED <<race_pc, page>>
                      ELSE /\ race_pc' = "loaded"
                           /\ page' \in site
                           /\ race_i' = race_i
              ELSE /\ raised
                   /\ events' = bustEvents \o <<"error">>
                   /\ race_i' = AfterError(race_i, NumRaces)
                   /\ UNCHANGED <<current_track, cache_bust_counter, race_url,
                                  race_pc, page>>
    /\ UNCHANGED <<race_card_urls, runners, all_race_data, crawl_result, site,
                   flaky_driver, fetchVars, sessVars,
                   enumVars, pipeVars>>

\* The rest of the loop body up to the duplicate check: readiness wait (one
\* driver.refresh, showing page pg2, when the page is not ready), the read of
\* driver.page_source, choice of the extractor, extraction, then "if runners:"
\* and _check_for_duplicates.  driver.refresh or driver.page_source can raise:
\* the iteration then ends in the except branch.  After a refresh, page keeps
\* the page that was read.
ExtractRace ==
    /\ race_pc = "loaded"
    /\ \E pg2 \in site, raised \in {"no", "refresh", "page_source"} :
         LET race_info == race_card_urls[race_i + 1]
             refreshed == WaitForContent(page) # <<>>
             pg == IF refreshed THEN pg2 ELSE page
             results == IsResultsPage(pg) \/ IsResultUrl(race_url)
             found == IF results THEN ExtractResultPage(race_info, pg)
                      ELSE ExtractRaceCard(race_info, pg)
             stale == NeedsRetry(all_race_data, found)
         IN  /\ (~refreshed \/ raised # "no") => pg2 = page
             /\ raised = "refresh" => refreshed
             /\ IF raised # "no"
                THEN /\ page' = BlankPage
                     /\ events' = events \o WaitForContent(page) \o <<"error">>
                     /\ race_pc' = "loop"
                     /\ runners' = <<>>
                     /\ race_i' = AfterError(race_i, NumRaces)
                     /\ UNCHANGED <<race_card_urls, all_race_data>>
                ELSE /\ page' = IF refreshed THEN pg ELSE BlankPage
                     /\ events' = events
                           \o WaitForContent(page)
                           \o (IF results THEN <<"extract_results">>
                               ELSE <<"extract_card">>)
                           \o (IF found # <<>> THEN <<"dedup_check">>
                               ELSE <<"no_runners">>)
                           \o (IF found # <<>> /\ ~stale THEN <<"append">>
                               ELSE <<>>)
                     /\ race_card_urls' = IF results
                                          THEN [race_card_urls EXCEPT ![race_i + 1] =
                                                  EnrichedInfo(race_info, pg)]
                                          ELSE race_card_urls
                     /\ IF stale
                        THEN /\ race_pc' = "retry"
                             /\ runners' = found
                             /\ UNCHANGED <<race_i, all_race_data>>
                        ELSE /\ race_pc' = "loop"
                             /\ runners' = <<>>
                             /\ race_i' = race_i + 1
                             /\ all_race_data' = Accepted(all_race_data, found)
    /\ UNCHANGED <<race_url, current_track, cache_bust_counter, bust_calls,
                   crawl_result, site, flaky_driver, fetchVars, sessVars,
                   enumVars, pipeVars>>

\* _retry_with_cache_bust and the "if runners:" after it: an aggressive bust
\* (inside which a driver call may fail), driver.get(retry_url) showing page
\* pg (or raising: the iteration ends in the except branch), re-extraction
\* with the race-card extractor; a non-empty result is appended, an empty one
\* skipped.
RetryRace ==
    /\ race_pc = "retry"
    /\ \E failed \in {FALSE, flaky_driver}, raised \in BOOLEAN, pg \in site :
         LET race_info == race_card_urls[race_i + 1]
             found == IF raised THEN <<>> ELSE RetryExtract(race_info, race_url, pg)
             bustEvents == BustEvents("aggressive", failed)
         IN  /\ raised => pg = BlankPage
             /\ (~BustReturns(failed)) => raised
             /\ all_race_data' = Accepted(all_race_data, found)
             /\ events' = events
                           \o (IF BustReturns(failed) THEN StartEvents(bustEvents)
                               ELSE bustEvents)
                           \o (IF raised THEN <<"error">> ELSE <<"extract_card">>)
                           \o (IF raised THEN <<>>
                               ELSE IF found # <<>> THEN <<"append">>
                               ELSE <<"skipped">>)
             /\ page' = IF raised THEN page ELSE pg
             /\ race_pc' = IF raised THEN "loop" ELSE AfterRetry(found)
             /\ race_i' = IF raised THEN AfterError(race_i, NumRaces)
                          ELSE IF AfterRetry(found) = "loop" THEN race_i + 1
                          ELSE race_i
    /\ bust_calls' = bust_calls + 1
    /\ runners' = <<>>
    /\ UNCHANGED <<race_card_urls, race_url, current_track, cache_bust_counter,
                   crawl_result, site, flaky_driver, fetchVars, sessVars,
                   enumVars, pipeVars>>

\* The end of the loop: "return all_race_data".
ReturnRaces ==
    /\ race_pc = "loop"
    /\ race_i = NumRaces
    /\ race_pc' = "done"
    /\ crawl_result' = [done |-> TRUE, rows |-> all_race_data]
    /\ UNCHANGED <<race_card_urls, race_i, page, race_url, runners, current_track,
                   cache_bust_counter, all_race_data, bust_calls, events, site,
                   flaky_driver, fetchVars, sessVars,
                   enumVars, pipeVars>>

NextCrawl ==
    \/ BeginRace
    \/ ExtractRace
    \/ RetryRace
    \/ ReturnRaces

\* One crawl on its own: no fetch is running.
CrawlOnly == InitCrawl /\ FetchIdle /\ SessIdle /\ RestIdle

SpecCrawl == CrawlOnly /\ [][NextCrawl]_vars

FairSpecCrawl == SpecCrawl /\ WF_vars(NextCrawl)

\* ------------------------------------- crawl: long single-meeting queues

\* A queue of lead cards of one meeting followed by run cards of another.
RunQueue(lead, run) ==
    [j \in 1..(lead + run) |->
        [track |-> IF j <= lead THEN "Crayford" ELSE "Hove",
         race_number |-> "1", race_time |-> "10:00",
         url |-> [kind |-> "card", id |-> IF j <= lead THEN 3 ELSE 1]]]

LongQueues ==
    { RunQueue(lead, run) : lead \in 0..MaxTargets, run \in 0..(MaxRun - MaxTargets) }

\* A site that shows the same one-dog card, or nothing, for every race; the
\* cookie / storage / reload calls of its cache busts may fail.
SparseSite ==
    {BlankPage, [kind |-> "card", dogs |-> <<CardDogs[1]>>, header |-> FALSE]}

\* Entry of _extract_from_race_cards with a long queue, on the sparse site.
InitLongCrawl ==
    /\ race_card_urls \in LongQueues
    /\ site = SparseSite
    /\ flaky_driver \in BOOLEAN
    /\ race_i = 0
    /\ race_pc = "loop"
    /\ page = BlankPage
    /\ race_url = NoUrl
    /\ runners = <<>>
    /\ current_track = "None"
    /\ cache_bust_counter = 0
    /\ all_race_data = <<>>
    /\ bust_calls = 0
    /\ events = <<>>
    /\ crawl_result = [done |-> FALSE, rows |-> <<>>]

LongCrawlOnly == InitLongCrawl /\ FetchIdle /\ SessIdle /\ RestIdle

SpecLongCrawl == LongCrawlOnly /\ [][NextCrawl]_vars

\* ------------------------------------------------------ crawl: claims

RecordKey(r) == <<r.Track, r.Race_Number, r.Race_Time, r.Dog_Name>>

\* C1 (as claimed): no two records of all_race_data share
\* (Track, Race_Number, Race_Time, Dog_Name), whatever the queue and whatever
\* the session serves.
C1_NoDuplicateKeys ==
    \A a \in 1..Len(all_race_data) : \A b \in (a + 1)..Len(all_race_data) :
        RecordKey(all_race_data[a]) # RecordKey(all_race_data[b])

\* C11 (as claimed): the cache-bust counter equals the number of
\* smart_cache_bust invocations made so far in the crawl, the aggressive bust
\* of the staleness retry included; so the count reported at the end is the
\* number of busts performed.
C11_CounterCountsEveryBust ==
    /\ cache_bust_counter = bust_calls
    /\ crawl_result.done => cache_bust_counter = bust_calls

\* C12: no target is retried twice (an iteration holds at most two navigations,
\* two extractions and, with the track-change bust, two aggressive busts), the
\* step after a retry always leaves the target for the next one, and the crawl
\* loop reaches its return.
C12_RetryAtMostOnce ==
    /\ [](/\ Count("get", events) <= 2
          /\ Count("extract_card", events) + Count("extract_results", events) <= 2
          /\ Count("bust_aggressive", events) <= 2
          /\ race_pc = "retry" => Count("get", events) = 1)
    /\ [][race_pc = "retry" => (race_pc' = "loop" /\ race_i' = race_i + 1)]_vars
    /\ <>[](crawl_result.done)

\* C12 witness: a target was retried (second navigation and extraction) and the
\* loop went on and returned.
C12_Witness ==
    /\ crawl_result.done
    /\ NumRaces >= 2
    /\ Count("get", events) = 2
    /\ Count("extract_card", events) + Count("extract_results", events) = 2

\* C13: whenever the loop starts a target whose track differs from
\* current_track (None at the first target), that step performs an aggressive
\* bust before the navigation and sets current_track to the target's track.
C13_TrackChangeAggressive ==
    [][(/\ race_pc = "loop"
        /\ race_i < NumRaces
        /\ race_card_urls[race_i + 1].track # current_track)
          => (/\ Len(events') >= 2
              /\ events'[1] = "bust_aggressive"
              /\ events'[2] = "get"
              /\ bust_calls' = bust_calls + 1
              /\ current_track' = race_card_urls[race_i + 1].track)]_vars

\* C13 witness: the first target (current track None) and a later target of
\* another track were both started with an aggressive bust.
C13_Witness ==
    /\ race_pc = "loaded"
    /\ race_i >= 1
    /\ race_card_urls[race_i].track # race_card_urls[race_i + 1].track
    /\ events = <<"bust_aggressive", "get">>
    /\ current_track = race_card_urls[race_i + 1].track
    /\ bust_calls >= 2

\* The number of same-track navigations made since the last track change when
\* target i (0-based) is navigated to: 0 for the target that changes track.
RunPosition(i) ==
    LET changes == { j \in 0..i : j = 0 \/ race_card_urls[j + 1].track
                                            # race_card_urls[j].track }
        start == CHOOSE j \in changes : \A j2 \in changes : j2 <= j
    IN  i - start

\* C14 (as claimed): a target gets a light bust exactly when it is the N-th,
\* 2N-th, ... same-track navigation since the last track change (N = 8).
C14_LightBustPerTrackRun ==
    (race_pc = "loaded" /\ Len(events) <= 2) =>
        (("bust_light" \in Range(events))
            <=> (RunPosition(race_i) > 0 /\ RunPosition(race_i) % LightBustEvery = 0))

\* C19: a step that ends a target in the except branch appends nothing, leaves
\* the accepted records as they were and moves to the next target; the index
\* only ever advances by one, and the loop returns all_race_data after the
\* last target.
C19_FaultIsolation ==
    /\ [][(race_i' # race_i /\ Len(events') > 0 /\ Last(events') = "error")
            => (/\ all_race_data' = all_race_data
                /\ race_pc' = "loop"
                /\ race_i' = race_i + 1)]_vars
    /\ [][race_i' # race_i => race_i' = race_i + 1]_vars
    /\ [](crawl_result.done => (race_i = NumRaces /\ crawl_result.rows = all_race_data))

\* C19 witness: the second of three targets ended in the except branch after
\* records of the first had been accepted; the third is still to come.
C19_Witness ==
    /\ NumRaces = 3
    /\ race_i = 2
    /\ race_pc = "loop"
    /\ Len(events) > 0
    /\ Last(events) = "error"
    /\ all_race_data # <<>>

\* C20: an iteration makes at most one refresh; when the page is not ready and
\* is still not ready after the refresh (and the driver raised nothing), the
\* iteration made exactly one refresh, appended nothing, made no retry and no
\* bust, and ended with "No runners found" on its way to the next target.
C20_NotReadySkipped ==
    /\ [](Count("refresh", events) <= 1)
    /\ [][(/\ race_pc = "loaded"
           /\ race_pc' # "loaded"
           /\ ~Ready(page)
           /\ ~Ready(page')
           /\ Last(events') # "error")
             => (/\ Count("refresh", events') = 1
                 /\ Last(events') = "no_runners"
                 /\ all_race_data' = all_race_data
                 /\ bust_calls' = bust_calls
                 /\ race_pc' = "loop"
                 /\ race_i' = race_i + 1)]_vars

\* C20 witness: a target after accepted records was not ready, was refreshed
\* once, was still not ready and ended with no runners.
C20_Witness ==
    /\ race_pc = "loop"
    /\ race_i >= 2
    /\ all_race_data # <<>>
    /\ ~Ready(page)
    /\ Count("refresh", events) = 1
    /\ Last(events) = "no_runners"

\* The records a step added at the end of all_race_data.
Appended == SubSeq(all_race_data', Len(all_race_data) + 1, Len(all_race_data'))

\* The page a step of the loop read its runners from.
PageRead ==
    IF race_pc = "loaded" /\ WaitForContent(page) = <<>> THEN page ELSE page'

\* C21: for every finite queue the loop terminates with every target processed
\* once, one at a time and in queue order: the index only moves by one, records
\* are only ever added at the end, a target adds either nothing or the whole
\* list extracted from the page read for it, and the loop then returns the
\* accumulated list.
C21_CrawlCompletes ==
    /\ [][/\ race_i' \in {race_i, race_i + 1}
          /\ race_i' <= NumRaces
          /\ SubSeq(all_race_data', 1, Len(all_race_data)) = all_race_data
          /\ Appended # <<>> =>
               /\ race_i' = race_i + 1
               /\ Last(events') = "append"
               /\ Appended =
                    IF race_pc = "loaded"
                       /\ (IsResultsPage(PageRead) \/ IsResultUrl(race_url))
                    THEN ExtractResultPage(race_card_urls[race_i + 1], PageRead)
                    ELSE ExtractRaceCard(race_card_urls[race_i + 1], PageRead)]_vars
    /\ <>[](/\ race_pc = "done"
            /\ race_i = NumRaces
            /\ crawl_result = [done |-> TRUE, rows |-> all_race_data])

\* C21 witness: a full queue was processed to the end and returned; one target
\* contributed its two records and the others were skipped.
C21_Witness ==
    /\ crawl_result.done
    /\ race_i = MaxTargets
    /\ Len(crawl_result.rows) = Len(CardDogs)

\* C26: a retry whose re-extracted records are empty or still overlap the
\* window beyond the threshold contributes nothing; what a retry appends is
\* non-empty and not stale.
C26_StaleRetrySkipped ==
    [][(race_pc = "retry" /\ Appended # <<>>)
          => ~CheckForDuplicates(all_race_data, Appended)]_vars

\* C28: the loop never changes a race target: track, race number, race time
\* and path stay what the enumeration produced.
C28_TargetsReadOnly == [][race_card_urls' = race_card_urls]_vars

BustKinds == {"bust_light", "bust_aggressive"}

\* C29: a failure inside a cache bust is swallowed: the bust returns, and the
\* navigation of the target (or of the retry) follows it at once, so the target
\* is still visited.
C29_BustBestEffort ==
    \A j \in 1..Len(events) :
        events[j] = "bust_error" =>
            /\ j > 1
            /\ events[j - 1] \in BustKinds
            /\ j < Len(events)
            /\ events[j + 1] = "get"

\* C29 witness: the aggressive bust of a target failed inside, and the target's
\* page was loaded all the same.
C29_Witness ==
    /\ race_pc = "loaded"
    /\ events = <<"bust_aggressive", "bust_error", "get">>
    /\ race_i >= 1

Before(a, k) == \E j \in 1..(k - 1) : events[j] = a

\* C30: within a target the steps come in the order bust decision (and bust),
\* navigation, readiness check, extraction, duplicate check, then accept, retry
\* or skip: a bust is either before the target's first navigation or part of
\* the retry after the duplicate check, a refresh and an extraction come after
\* a navigation, the duplicate check comes right after an extraction, and
\* nothing is appended before the duplicate check.
C30_StepOrder ==
    \A k \in 1..Len(events) :
        /\ events[k] \in BustKinds => (~Before("get", k) \/ Before("dedup_check", k))
        /\ events[k] = "refresh" => events[k - 1] = "get"
        /\ events[k] \in {"extract_results", "extract_card"} =>
               events[k - 1] \in {"get", "refresh"}
        /\ events[k] \in {"dedup_check", "no_runners"} =>
               events[k - 1] \in {"extract_results", "extract_card"}
        /\ events[k] \in {"append", "skipped"} => Before("dedup_check", k)

\* C30 witness: a target went through every step once: bust, navigation,
\* refresh, extraction, duplicate check, then the retry and its append.
C30_Witness ==
    events = <<"bust_aggressive", "get", "refresh", "extract_card", "dedup_check",
               "bust_aggressive", "get", "extract_card", "append">>

\* C34: the second attempt of a target suspected stale always reads its page
\* with the race-card extractor, whichever extractor the first attempt used: the
\* records it adds are the race-card extraction of the page it loaded, and when
\* that page is a results page it finds no runner container, adds nothing and
\* the target is skipped.
C34_RetryUsesCardExtractor ==
    [][(race_pc = "retry" /\ Last(events') # "error") =>
          /\ events'[Len(events') - 1] = "extract_card"
          /\ Appended = ExtractRaceCard(race_card_urls[race_i + 1], page')
          /\ page'.kind = "results" =>
                /\ Appended = <<>>
                /\ Last(events') = "skipped"
                /\ race_i' = race_i + 1]_vars

\* A target first read by the results extractor and suspected stale, whose
\* second attempt loaded a results page with runners and was skipped.
C34_Witness ==
    /\ race_pc = "loop"
    /\ page.kind = "results"
    /\ page.dogs # <<>>
    /\ Count("extract_results", events) = 1
    /\ Len(events) >= 4
    /\ SubSeq(events, Len(events) - 3, Len(events))
          = <<"bust_aggressive", "get", "extract_card", "skipped">>

\* The records the loop has extracted for the target it is working on.
TargetRecords ==
    IF race_pc = "loaded"
    THEN IF IsResultsPage(PageRead) \/ IsResultUrl(race_url)
         THEN ExtractResultPage(race_card_urls[race_i + 1], PageRead)
         ELSE ExtractRaceCard(race_card_urls[race_i + 1], PageRead)
    ELSE ExtractRaceCard(race_card_urls[race_i + 1], PageRead)

\* C35: the accepted list only grows at its end. No step removes, reorders or
\* changes a record already in it; the only steps that change it are the two
\* that accept a target, and each adds that target's whole extraction after
\* everything accepted before; starting a target, skipping one, suspecting one
\* stale and returning leave it as it is, and the list returned is the list
\* accumulated.
C35_AcceptedAppendOnly ==
    /\ [][/\ Len(all_race_data') >= Len(all_race_data)
          /\ SubSeq(all_race_data', 1, Len(all_race_data)) = all_race_data
          /\ all_race_data' # all_race_data =>
                /\ race_pc \in {"loaded", "retry"}
                /\ Last(events') = "append"
                /\ race_i' = race_i + 1
                /\ Appended = TargetRecords
          /\ (race_pc = "loop" \/ race_pc' = "retry" \/ Last(events') # "append")
                => all_race_data' = all_race_data]_vars
    /\ [](crawl_result.done => crawl_result.rows = all_race_data)

\* Three targets accepted one after another, one of them on its second attempt:
\* the list holds the records of the first, then the second, then the third.
C35_Witness ==
    /\ race_pc = "done"
    /\ Len(all_race_data) = 3 * Len(CardDogs)
    /\ all_race_data[1].Track # all_race_data[Len(all_race_data)].Track
    /\ bust_calls > cache_bust_counter

\* The number of targets whose iteration has started.
TargetsStarted == IF race_pc \in {"loop", "done"} THEN race_i ELSE race_i + 1

\* Whether the j-th target of the queue is of another track than the one
\* before it.
TrackChangeAt(j) == j > 1 /\ race_card_urls[j].track # race_card_urls[j - 1].track

\* The busts in the log of the current target that precede its navigation.
BustsBeforeGet ==
    { j \in 1..Len(events) :
        /\ events[j] \in BustKinds
        /\ \A k \in 1..j : events[k] # "get" }

C38_FirstAcceptedEmptySkipped ==
    [][(race_pc = "loaded" /\ Last(events') # "error") =>
          /\ (all_race_data = <<>> /\ TargetRecords # <<>>) =>
                /\ Last(events') = "append"
                /\ all_race_data' = TargetRecords
                /\ race_pc' = "loop"
                /\ race_i' = race_i + 1
                /\ bust_calls' = bust_calls
          /\ TargetRecords = <<>> =>
                /\ Last(events') = "no_runners"
                /\ Count("dedup_check", events') = 0
                /\ all_race_data' = all_race_data
                /\ race_pc' = "loop"
                /\ race_i' = race_i + 1
                /\ bust_calls' = bust_calls]_vars

\* The first target added nothing, the second was the first with runners and
\* was accepted on its first attempt: two targets done, only the two busts
\* that preceded their navigations.
C38_Witness ==
    /\ race_pc = "loop"
    /\ race_i = 2
    /\ all_race_data # <<>>
    /\ Last(events) = "append"
    /\ Count("dedup_check", events) = 1
    /\ Count("get", events) = 1
    /\ \A j \in 1..Len(all_race_data) :
          all_race_data[j].Track = race_card_urls[2].track
    /\ race_card_urls[1].track # race_card_urls[2].track
    /\ bust_calls = 2

\* ------------------------------------------------- crawl: the staleness check

MaxAccepted == 7

MaxEntrants == 2

\* Dog names as the two extractors produce them: the text of the name element,
\* or 'Unknown' when the result page has none.
StaleNames == {"Swift Sal", "Unknown"}

NameLists(n) == UNION {[1..k -> StaleNames] : k \in 0..n}

\* The race the records of the staleness check belong to.
StaleTarget ==
    [track |-> "Hove", race_number |-> "1", race_time |-> "10:00",
     url |-> [kind |-> "card", id |-> 1]]

RecordsOf(names) == [j \in 1..Len(names) |-> RunnerRecord(StaleTarget, names[j])]

\* The call _check_for_duplicates(all_race_data, runners, race_url) of the
\* loop, for any accepted records and any non-empty new list.
InitStale ==
    /\ all_race_data \in {RecordsOf(names) : names \in NameLists(MaxAccepted)}
    /\ runners \in {RecordsOf(names) : names \in NameLists(MaxEntrants) \ {<<>>}}
    /\ race_pc = "loaded"
    /\ race_card_urls = <<StaleTarget>>
    /\ race_i = 0
    /\ page = BlankPage
    /\ race_url = NoUrl
    /\ current_track = "None"
    /\ cache_bust_counter = 0
    /\ bust_calls = 0
    /\ events = <<>>
    /\ crawl_result = [done |-> FALSE, rows |-> <<>>]
    /\ site = {}
    /\ flaky_driver = FALSE

\* "if self._check_for_duplicates(...)": the loop goes to the retry when the
\* check is truthy and to the append otherwise.
CheckStale ==
    /\ race_pc = "loaded"
    /\ race_pc' = IF CheckForDuplicates(all_race_data, runners) THEN "retry"
                  ELSE "accept"
    /\ events' = <<"dedup_check">>
    /\ UNCHANGED <<race_card_urls, race_i, page, race_url, runners, current_track,
                   cache_bust_counter, all_race_data, bust_calls, crawl_result,
                   site, flaky_driver, fetchVars, sessVars,
                   enumVars, pipeVars>>

StaleOnly == InitStale /\ FetchIdle /\ SessIdle /\ RestIdle

SpecStale == StaleOnly /\ [][CheckStale]_vars

\* The names of the last min(6, number accepted) accepted records.
WindowNames ==
    {all_race_data[j].Dog_Name :
        j \in {i \in 1..Len(all_race_data) : i > Len(all_race_data) - WindowSize}}

NewNames == {runners[j].Dog_Name : j \in 1..Len(runners)}

\* C27 as stated: staleness is reported exactly when the names common to the
\* new race and the window are more than half of the new race's entrant count.
C27_HalfOfEntrants ==
    race_pc \in {"retry", "accept"} =>
        (race_pc = "retry" <=>
            2 * Cardinality(WindowNames \cap NewNames) > Len(runners))

\* C27: staleness is reported exactly when the names common to the new race
\* and the last min(6, number accepted) accepted records are more than half of
\* the distinct dog names of the new race; older records play no part and
\* nothing is reported when nothing was accepted.
C27_HalfOfDistinctNames ==
    race_pc \in {"retry", "accept"} =>
        /\ race_pc = "retry" <=>
             2 * Cardinality(WindowNames \cap NewNames) > Cardinality(NewNames)
        /\ all_race_data = <<>> => race_pc = "accept"

\* C27 witness: seven records were accepted, the oldest alone carries the name
\* of the new race, and the check reported no staleness.
C27_Witness ==
    /\ race_pc = "accept"
    /\ Len(all_race_data) = WindowSize + 1
    /\ NewNames = {all_race_data[1].Dog_Name}
    /\ NewNames \cap WindowNames = {}

\* ------------------------------------------------- session: dates

EmptyDate == [kind |-> "empty", y |-> 0, m |-> 0, d |-> 0]

DateString(y, m, d) == [kind |-> "date", y |-> y, m |-> m, d |-> d]

IsLeap(y) == (y % 4 = 0 /\ y % 100 # 0) \/ y % 400 = 0

DaysInMonth(y, m) ==
    IF m = 2 THEN (IF IsLeap(y) THEN 29 ELSE 28)
    ELSE IF m \in {4, 6, 9, 11} THEN 30
    ELSE 31

\* "not start_date": None and the empty string are falsy.
Falsy(s) == s.kind \in {"none", "empty"}

\* Whether datetime.strptime(s, "%Y-%m-%d") returns (it raises otherwise).
ValidDate(s) ==
    /\ s.kind = "date"
    /\ s.y >= 1
    /\ s.m \in 1..12
    /\ s.d >= 1
    /\ s.d <= DaysInMonth(s.y, s.m)

\* datetime.strptime(s, "%Y-%m-%d").date()
Strptime(s) == [year |-> s.y, month |-> s.m, day |-> s.d]

\* cur.strftime("%Y-%m-%d")
Strftime(dt) == DateString(dt.year, dt.month, dt.day)

\* a < b on datetime.date
DateLess(a, b) ==
    \/ a.year < b.year
    \/ a.year = b.year /\ a.month < b.month
    \/ a.year = b.year /\ a.month = b.month /\ a.day < b.day

\* cur + timedelta(days=1)
NextDay(dt) ==
    IF dt.day < DaysInMonth(dt.year, dt.month)
    THEN [dt EXCEPT !.day = @ + 1]
    ELSE IF dt.month < 12
    THEN [year |-> dt.year, month |-> dt.month + 1, day |-> 1]
    ELSE [year |-> dt.year + 1, month |-> 1, day |-> 1]

IterContinues_Exclusive(cur, last) == DateLess(cur, last)

\* "while cur <= end"
IterContinues(cur, last) == ~DateLess(last, cur)

OrderDates_AsGiven(a, b) == <<a, b>>

\* "if end < start: start, end = end, start"
OrderDates(a, b) == IF DateLess(b, a) THEN <<b, a>> ELSE <<a, b>>

\* The dates the loop "while cur <= end: yield ...; cur += 1 day" yields.
RECURSIVE YieldDates(_, _)
YieldDates(cur, last) ==
    IF IterContinues(cur, last)
    THEN <<Strftime(cur)>> \o YieldDates(NextDay(cur), last)
    ELSE <<>>

\* _iter_dates_inclusive(start_date, end_date), as the list it yields.
IterDatesInclusive(s, e) ==
    LET o == OrderDates(Strptime(s), Strptime(e))
    IN  YieldDates(o[1], o[2])

NormalizeDates_NoFill(s, e) == <<s, e>>

\* The normalisation of start_date / end_date in historical mode: a single
\* supplied date fills both.
NormalizeDates(s, e) ==
    LET e1 == IF ~Falsy(s) /\ Falsy(e) THEN s ELSE e
        s1 == IF ~Falsy(e1) /\ Falsy(s) THEN e1 ELSE s
    IN  <<s1, e1>>

\* The day count of a date from 1 January 2024.
RECURSIVE DaysBeforeYear(_)
DaysBeforeYear(y) ==
    IF y <= 2024 THEN 0
    ELSE DaysBeforeYear(y - 1) + (IF IsLeap(y - 1) THEN 366 ELSE 365)

RECURSIVE DaysBeforeMonth(_, _)
DaysBeforeMonth(y, m) ==
    IF m <= 1 THEN 0 ELSE DaysBeforeMonth(y, m - 1) + DaysInMonth(y, m - 1)

DayNumber(dt) == DaysBeforeYear(dt.year) + DaysBeforeMonth(dt.year, dt.month) + dt.day

\* The dates the calls are made with: a few days from the end of February of a
\* leap year and of a common year, from the end of a year, and from the range
\* of the smoke test; two strings that are no calendar date; None and "".
Anchors ==
    { [year |-> 2024, month |-> 2, day |-> 27],
      [year |-> 2025, month |-> 2, day |-> 27],
      [year |-> 2025, month |-> 12, day |-> 30],
      [year |-> 2025, month |-> 9, day |-> 5] }

CalendarDays ==
    { dt \in [year : 2024..2026, month : 1..12, day : 1..31] :
        dt.day <= DaysInMonth(dt.year, dt.month) }

WindowDays ==
    { dt \in CalendarDays :
        \E a \in Anchors : DayNumber(dt) - DayNumber(a) \in 0..MaxSpan }

DateArgs ==
    {Strftime(dt) : dt \in WindowDays}
    \cup {DateString(2025, 2, 30), DateString(2025, 13, 1), NoneDate, EmptyDate}

\* ------------------------------------ session: extract_race_data

ShouldQuit_Never(drv) == FALSE

\* "if self.driver:" of the finally block.
ShouldQuit(drv) == drv # "None"

Failed(why) == [value |-> "None", error |-> why, rows |-> <<>>]

DataFrame_NoneWhenEmpty(rows) ==
    IF rows = <<>> THEN Failed("empty")
    ELSE [value |-> "df", error |-> "", rows |-> rows]

\* pd.DataFrame(all_race_data): a frame with one row per record, none for an
\* empty list.
DataFrame(rows) == [value |-> "df", error |-> "", rows |-> rows]

\* How the crawl of one date, or of today's cards, can go: a raise in the
\* navigation or the enumeration, no race target enumerated, or records.
DayOutcomes == {"fail", "no_targets", "rows"}

\* Today's records carry no date.
Today == [kind |-> "today", y |-> 0, m |-> 0, d |-> 0]

\* The records the crawl of a day hands back: two of the day when targets were
\* crawled, [] when none was found or when _extract_for_single_date caught an
\* exception.
DayRows(date_str, outcome) ==
    IF outcome = "rows"
    THEN <<[Date |-> date_str, n |-> 1], [Date |-> date_str, n |-> 2]>>
    ELSE <<>>

AfterDate_AbortOnFailure(outcome) == IF outcome = "fail" THEN "finally" ELSE "dates"

\* Where the date loop goes after the crawl of a date: _extract_for_single_date
\* returns a list whatever happened, and the loop takes the next date.
AfterDate(outcome) == "dates"

\* A call of extract_race_data on an extractor that is new (driver None) or
\* has run a call before (driver quit).
InitSession ==
    /\ mode \in {"today", "historical"}
    /\ start_date \in DateArgs
    /\ end_date \in DateArgs
    /\ mode = "today" => (start_date = NoneDate /\ end_date = NoneDate)
    /\ (ValidDate(start_date) /\ ValidDate(end_date)) =>
          LET span == DayNumber(Strptime(end_date)) - DayNumber(Strptime(start_date))
          IN  span \in (0 - MaxSpan)..MaxSpan
    /\ driver \in {"None", "quit"}
    /\ started = FALSE
    /\ quits = 0
    /\ navs = 0
    /\ late_navs = 0
    /\ sess_pc = "setup"
    /\ date_cur = NoDay
    /\ date_last = NoDay
    /\ dates_crawled = <<>>
    /\ day_outcomes = <<>>
    /\ sess_rows = <<>>
    /\ sess_result = NoResult

\* _setup_driver: it can raise before webdriver.Chrome returned (imports,
\* driver install, browser launch), or after self.driver was assigned
\* (execute_script).
SetupDriver ==
    /\ sess_pc = "setup"
    /\ \E how \in {"ok", "raise_before", "raise_after"} :
         /\ driver' = IF how = "raise_before" THEN driver ELSE "live"
         /\ started' = (how # "raise_before")
         /\ IF how = "ok"
            THEN sess_pc' = "body" /\ UNCHANGED sess_result
            ELSE sess_pc' = "finally" /\ sess_result' = Failed("setup")
    /\ UNCHANGED <<mode, start_date, end_date, quits, navs, late_navs, date_cur,
                   date_last, dates_crawled, day_outcomes, sess_rows, fetchVars,
                   crawlVars,
                   enumVars, pipeVars>>

\* Historical mode up to the first step of the date loop: the missing-date
\* check, the normalisation, and the two strptime calls and the swap of
\* _iter_dates_inclusive.
EnterHistorical ==
    /\ sess_pc = "body"
    /\ mode = "historical"
    /\ LET nd == NormalizeDates(start_date, end_date)
       IN  IF Falsy(start_date) /\ Falsy(end_date)
           THEN /\ sess_result' = Failed("no_dates")
                /\ sess_pc' = "finally"
                /\ UNCHANGED <<date_cur, date_last>>
           ELSE IF ~ValidDate(nd[1]) \/ ~ValidDate(nd[2])
           THEN /\ sess_result' = Failed("bad_date")
                /\ sess_pc' = "finally"
                /\ UNCHANGED <<date_cur, date_last>>
           ELSE LET a == Strptime(nd[1])
                    b == Strptime(nd[2])
                IN  /\ date_cur' = OrderDates(a, b)[1]
                    /\ date_last' = OrderDates(a, b)[2]
                    /\ sess_pc' = "dates"
                    /\ UNCHANGED sess_result
    /\ UNCHANGED <<mode, start_date, end_date, driver, started, quits, navs,
                   late_navs, dates_crawled, day_outcomes, sess_rows, fetchVars,
                   crawlVars,
                   enumVars, pipeVars>>

\* One round of the date loop: _extract_for_single_date(cur) navigates to the
\* results list of the date, enumerates and crawls its targets (catching every
\* exception and then returning []), its records are added to all_race_data,
\* then cur += 1 day.
CrawlDate ==
    /\ sess_pc = "dates"
    /\ IterContinues(date_cur, date_last)
    /\ \E outcome \in DayOutcomes :
         /\ day_outcomes' = Append(day_outcomes, outcome)
         /\ sess_rows' = sess_rows \o DayRows(Strftime(date_cur), outcome)
         /\ sess_pc' = AfterDate(outcome)
         /\ sess_result' = IF AfterDate(outcome) = "dates" THEN sess_result
                           ELSE Failed("date")
    /\ dates_crawled' = Append(dates_crawled, Strftime(date_cur))
    /\ navs' = navs + 1
    /\ late_navs' = IF driver = "live" THEN late_navs ELSE late_navs + 1
    /\ date_cur' = NextDay(date_cur)
    /\ UNCHANGED <<mode, start_date, end_date, driver, started, quits, date_last,
                   fetchVars, crawlVars,
                   enumVars, pipeVars>>

\* The end of the date loop: the DataFrame is built (pandas may be missing).
FinishHistorical ==
    /\ sess_pc = "dates"
    /\ ~IterContinues(date_cur, date_last)
    /\ \E pandas \in BOOLEAN :
         sess_result' = IF pandas THEN DataFrame(sess_rows)
                        ELSE Failed("no_pandas")
    /\ sess_pc' = "finally"
    /\ UNCHANGED <<mode, start_date, end_date, driver, started, quits, navs,
                   late_navs, date_cur, date_last, dates_crawled, day_outcomes,
                   sess_rows, fetchVars, crawlVars,
                   enumVars, pipeVars>>

\* Today mode: driver.get(base_url), enumeration and crawl of today's cards,
\* then the DataFrame; a raise of the navigation or of the enumeration goes to
\* the except branch, and so does a missing pandas.
CrawlToday ==
    /\ sess_pc = "body"
    /\ mode = "today"
    /\ \E outcome \in DayOutcomes, pandas \in BOOLEAN :
         /\ outcome = "fail" => pandas
         /\ day_outcomes' = <<outcome>>
         /\ sess_rows' = DayRows(Today, outcome)
         /\ sess_result' = IF outcome = "fail" THEN Failed("navigation")
                           ELSE IF ~pandas THEN Failed("no_pandas")
                           ELSE DataFrame(DayRows(Today, outcome))
    /\ navs' = navs + 1
    /\ late_navs' = IF driver = "live" THEN late_navs ELSE late_navs + 1
    /\ sess_pc' = "finally"
    /\ UNCHANGED <<mode, start_date, end_date, driver, started, quits, date_cur,
                   date_last, dates_crawled, fetchVars, crawlVars,
                   enumVars, pipeVars>>

\* The finally block, then the return.
Finally ==
    /\ sess_pc = "finally"
    /\ IF ShouldQuit(driver)
       THEN driver' = "quit" /\ quits' = quits + 1
       ELSE UNCHANGED <<driver, quits>>
    /\ sess_pc' = "returned"
    /\ UNCHANGED <<mode, start_date, end_date, started, navs, late_navs, date_cur,
                   date_last, dates_crawled, day_outcomes, sess_rows, sess_result,
                   fetchVars, crawlVars,
                   enumVars, pipeVars>>

NextSession ==
    \/ SetupDriver
    \/ EnterHistorical
    \/ CrawlDate
    \/ FinishHistorical
    \/ CrawlToday
    \/ Finally

\* One call of extract_race_data on its own.
SessionOnly == InitSession /\ FetchIdle /\ CrawlIdle /\ RestIdle

SpecSession == SessionOnly /\ [][NextSession]_vars

FairSpecSession == SpecSession /\ WF_vars(NextSession)

\* ---------------------------------------------------- session: claims

\* The arguments are usable dates: after the normalisation both parse.
UsableDates ==
    /\ mode = "historical"
    /\ ValidDate(NormalizeDates(start_date, end_date)[1])
    /\ ValidDate(NormalizeDates(start_date, end_date)[2])

\* The date loop has ended.
EnumerationDone ==
    \/ sess_pc = "dates" /\ ~IterContinues(date_cur, date_last)
    \/ sess_pc \in {"finally", "returned"} /\ sess_result.error \in {"", "no_pandas"}

\* C15: for two dates d1 <= d2 the enumeration yields consecutive calendar
\* days in ascending order starting at d1 (each once, none skipped), and when
\* it has ended it stopped at d2: (d2 - d1) in days + 1 dates.
C15_DatesInclusive ==
    (/\ mode = "historical"
     /\ ValidDate(start_date)
     /\ ValidDate(end_date)
     /\ ~DateLess(Strptime(end_date), Strptime(start_date)))
    => /\ \A j \in 1..Len(dates_crawled) :
            /\ ValidDate(dates_crawled[j])
            /\ DayNumber(Strptime(dates_crawled[j]))
                 = DayNumber(Strptime(start_date)) + j - 1
       /\ Len(dates_crawled) > 0 => dates_crawled[1] = start_date
       /\ EnumerationDone =>
            /\ Len(dates_crawled)
                 = DayNumber(Strptime(end_date)) - DayNumber(Strptime(start_date)) + 1
            /\ Last(dates_crawled) = end_date

\* C15 witness: a finished enumeration of at least three days that crosses the
\* end of February of a leap year.
C15_Witness ==
    /\ mode = "historical"
    /\ sess_pc = "returned"
    /\ Len(dates_crawled) >= 3
    /\ start_date = DateString(2024, 2, 28)
    /\ end_date = DateString(2024, 3, 1)
    /\ dates_crawled[2] = DateString(2024, 2, 29)

\* The call was given one date: only start, only end, or the same date twice.
SingleDate ==
    /\ mode = "historical"
    /\ \/ ValidDate(start_date) /\ Falsy(end_date)
       \/ Falsy(start_date) /\ ValidDate(end_date)
       \/ ValidDate(start_date) /\ end_date = start_date

TheDate == IF ValidDate(start_date) THEN start_date ELSE end_date

\* C16: a historical call given one date crawls that date and no other: never
\* more than that one per-date crawl, and exactly that one whenever the
\* browser session could be set up.
C16_SingleDate ==
    SingleDate =>
        /\ dates_crawled \in {<<>>, <<TheDate>>}
        /\ (sess_pc = "returned" /\ sess_result.error # "setup")
              => dates_crawled = <<TheDate>>

\* C16 witness: a call with only an end date returned a DataFrame after
\* crawling that date.
C16_Witness ==
    /\ mode = "historical"
    /\ sess_pc = "returned"
    /\ start_date = NoneDate
    /\ end_date = DateString(2025, 9, 5)
    /\ sess_result.value = "df"
    /\ dates_crawled = <<end_date>>

\* C17: the session a call created stays live until the finally block and is
\* quit exactly once when the call has returned, however it ended; no
\* navigation is made on a session that is not live; quit is never called
\* twice in a call; and every call returns.
C17_SessionClosedOnce ==
    /\ [](/\ quits <= 1
          /\ late_navs = 0
          /\ (started /\ sess_pc # "returned") => (driver = "live" /\ quits = 0)
          /\ (started /\ sess_pc = "returned") => (driver = "quit" /\ quits = 1))
    /\ [][navs' # navs => (driver = "live" /\ driver' = "live")]_vars
    /\ <>[](sess_pc = "returned")

\* C17 witness: a call whose _setup_driver raised after the driver object was
\* created has returned None with the session quit.
C17_Witness ==
    /\ sess_pc = "returned"
    /\ started
    /\ sess_result = Failed("setup")
    /\ driver = "quit"
    /\ quits = 1

\* C18 (as claimed): a historical call with neither date ends with the error
\* raised to the caller, and no browser session was created and no page loaded
\* for it.
C18_NoDatesRaisedFirst ==
    (mode = "historical" /\ Falsy(start_date) /\ Falsy(end_date)) =>
        /\ ~started
        /\ navs = 0
        /\ sess_pc = "returned" => sess_result.value = "raised"

RECURSIVE RowsOfDays(_, _)
\* The records of the crawled days, day after day.
RowsOfDays(days, outs) ==
    IF days = <<>> THEN <<>>
    ELSE DayRows(Head(days), Head(outs)) \o RowsOfDays(Tail(days), Tail(outs))

\* The days between the two dates, both included.
SpanDays ==
    LET a == DayNumber(Strptime(NormalizeDates(start_date, end_date)[1]))
        b == DayNumber(Strptime(NormalizeDates(start_date, end_date)[2]))
    IN  (IF a < b THEN b - a ELSE a - b) + 1

\* C22: in a historical crawl a date whose enumeration or crawl failed adds no
\* record, the dates after it are crawled all the same (a call whose session
\* was set up crawls every date of the range), and the records of the other
\* dates are all in the result, in date order.
C22_DateIsolation ==
    UsableDates =>
        /\ Len(day_outcomes) = Len(dates_crawled)
        /\ \A j \in 1..Len(day_outcomes) :
              day_outcomes[j] = "fail" =>
                  \A k \in 1..Len(sess_rows) : sess_rows[k].Date # dates_crawled[j]
        /\ sess_rows = RowsOfDays(dates_crawled, day_outcomes)
        /\ (sess_pc = "returned" /\ sess_result.error # "setup")
              => Len(dates_crawled) = SpanDays
        /\ sess_result.value = "df" => sess_result.rows = sess_rows

\* C22 witness: a call over three dates has returned; the crawl of the second
\* date failed and the records of the first and of the third are in the
\* result.
C22_Witness ==
    /\ mode = "historical"
    /\ sess_pc = "returned"
    /\ day_outcomes = <<"rows", "fail", "rows">>
    /\ sess_result.value = "df"
    /\ Len(sess_result.rows) = 4
    /\ sess_result.rows[3].Date = dates_crawled[3]

\* C39: the date enumeration is symmetric in its two arguments: for two usable
\* dates, given in either order, it yields the same list, the consecutive
\* calendar days in ascending order from the earlier to the later date, both
\* included, never an empty list; and the dates a call crawls are a prefix of
\* the list of the swapped arguments, the whole of it once the call has
\* returned from a session that started.
C39_DateOrderSymmetric ==
    UsableDates =>
        LET s == NormalizeDates(start_date, end_date)[1]
            e == NormalizeDates(start_date, end_date)[2]
            given == IterDatesInclusive(s, e)
            swapped == IterDatesInclusive(e, s)
            lo == IF DayNumber(Strptime(s)) <= DayNumber(Strptime(e)) THEN s ELSE e
            hi == IF DayNumber(Strptime(s)) <= DayNumber(Strptime(e)) THEN e ELSE s
        IN  /\ given = swapped
            /\ Len(given) = DayNumber(Strptime(hi)) - DayNumber(Strptime(lo)) + 1
            /\ given[1] = lo
            /\ given[Len(given)] = hi
            /\ \A j \in 1..Len(given) :
                  DayNumber(Strptime(given[j])) = DayNumber(Strptime(lo)) + j - 1
            /\ Len(dates_crawled) <= Len(swapped)
            /\ dates_crawled = SubSeq(swapped, 1, Len(dates_crawled))
            /\ (sess_pc = "returned" /\ sess_result.error # "setup")
                  => dates_crawled = swapped

\* C39 witness: a call whose start date is later than its end date has
\* returned after crawling the days from the end date up to the start date.
C39_Witness ==
    /\ mode = "historical"
    /\ sess_pc = "returned"
    /\ ValidDate(start_date)
    /\ ValidDate(end_date)
    /\ DateLess(Strptime(end_date), Strptime(start_date))
    /\ Len(dates_crawled) >= 3
    /\ dates_crawled[1] = end_date
    /\ dates_crawled[Len(dates_crawled)] = start_date
    /\ Strptime(end_date).month # Strptime(start_date).month

\* No race target was enumerated in the whole call.
ZeroTargets ==
    /\ day_outcomes # <<>>
    /\ \A j \in 1..Len(day_outcomes) : day_outcomes[j] = "no_targets"

\* C24 as stated: the failure value None is returned only when the session
\* could not be started or a precondition failed (no date or an unusable date
\* in historical mode, pandas missing).
C24_NoneOnlyStartOrPrecondition ==
    (sess_pc = "returned" /\ sess_result.value = "None") =>
        sess_result.error \in {"setup", "no_dates", "bad_date", "no_pandas"}

\* C24: a call that enumerated no race target (today, or on every date of a
\* historical range) returns an empty frame, never an exception and, with the
\* session set up and pandas present, not None; None is returned when the
\* session could not be started, when historical mode has no usable date, when
\* pandas is missing, and also when the navigation or the enumeration of today
\* mode raised.
C24_EmptyResultNotFailure ==
    sess_pc = "returned" =>
        /\ sess_result.value \in {"df", "None"}
        /\ (ZeroTargets /\ sess_result.error \notin {"setup", "no_pandas"})
              => sess_result = DataFrame(<<>>)
        /\ sess_result.value = "None" =>
              \/ sess_result.error \in {"setup", "no_pandas"}
              \/ mode = "historical" /\ ~UsableDates
              \/ mode = "today" /\ day_outcomes = <<"fail">>

\* C24 witness: a historical call over at least two dates found no race
\* target on any of them and returned an empty frame.
C24_Witness ==
    /\ mode = "historical"
    /\ sess_pc = "returned"
    /\ Len(dates_crawled) >= 2
    /\ ZeroTargets
    /\ sess_result = [value |-> "df", error |-> "", rows |-> <<>>]

\* --------------------------------------- session: the crawl of each date

MaxDays == 2

MaxDayTargets == 2

\* The result links a results meeting lists: one race of each of two meetings,
\* number and time unparsed.
DayTargets ==
    { [track |-> t, race_number |-> "TBC", race_time |-> "TBC",
       url |-> [kind |-> "result", id |-> IF t = "Hove" THEN 2 ELSE 4]] :
        t \in {"Hove", "Crayford"} }

\* A site that shows the same one-dog results page, or nothing, for every race
\* of every date.
DaySite ==
    {BlankPage, [kind |-> "results", dogs |-> <<CardDogs[1]>>, header |-> FALSE]}

\* The ranges of dates a historical call walks, from its first date.
FirstDay == [year |-> 2025, month |-> 12, day |-> 30]

DayRanges ==
    { <<FirstDay, dt>> :
        dt \in { d \in CalendarDays :
                   DayNumber(d) - DayNumber(FirstDay) \in 0..(MaxDays - 1) } }

CrawlLocals_Carried(left) == left

\* The locals of a call of _extract_from_race_cards at its entry, whatever the
\* call before it left in its own: an empty all_race_data, current_track None,
\* cache_bust_counter 0.
CrawlLocals(left) ==
    [all_race_data |-> <<>>, current_track |-> "None", cache_bust_counter |-> 0]

\* extract_race_data in historical mode, at the first round of its date loop:
\* the session is live and no crawl is running.
InitDateCrawls ==
    /\ mode = "historical"
    /\ \E r \in DayRanges :
         /\ start_date = Strftime(r[1])
         /\ end_date = Strftime(r[2])
         /\ date_cur = r[1]
         /\ date_last = r[2]
    /\ driver = "live"
    /\ started = TRUE
    /\ quits = 0
    /\ navs = 0
    /\ late_navs = 0
    /\ sess_pc = "dates"
    /\ dates_crawled = <<>>
    /\ day_outcomes = <<>>
    /\ sess_rows = <<>>
    /\ sess_result = NoResult
    /\ race_card_urls = <<>>
    /\ site = DaySite
    /\ flaky_driver = FALSE
    /\ race_i = 0
    /\ race_pc = "idle"
    /\ page = BlankPage
    /\ race_url = NoUrl
    /\ runners = <<>>
    /\ current_track = "None"
    /\ cache_bust_counter = 0
    /\ all_race_data = <<>>
    /\ bust_calls = 0
    /\ events = <<>>
    /\ crawl_result = [done |-> FALSE, rows |-> <<>>]

\* _extract_for_single_date(cur) up to the entry of _extract_from_race_cards:
\* the navigation to the results list of the date and the enumeration of its
\* targets, which may raise (the call then returns [] and the loop takes the
\* next date); then the call of _extract_from_race_cards with its fresh locals.
BeginDate ==
    /\ sess_pc = "dates"
    /\ race_pc = "idle"
    /\ IterContinues(date_cur, date_last)
    /\ dates_crawled' = Append(dates_crawled, Strftime(date_cur))
    /\ navs' = navs + 1
    /\ late_navs' = IF driver = "live" THEN late_navs ELSE late_navs + 1
    /\ \E raised \in BOOLEAN, queue \in SeqsUpTo(DayTargets, MaxDayTargets) :
         LET locals == CrawlLocals([all_race_data |-> all_race_data,
                                    current_track |-> current_track,
                                    cache_bust_counter |-> cache_bust_counter])
         IN  IF raised
             THEN /\ queue = <<>>
                  /\ day_outcomes' = Append(day_outcomes, "fail")
                  /\ date_cur' = NextDay(date_cur)
                  /\ UNCHANGED crawlVars
             ELSE /\ race_card_urls' = queue
                  /\ all_race_data' = locals.all_race_data
                  /\ current_track' = locals.current_track
                  /\ cache_bust_counter' = locals.cache_bust_counter
                  /\ race_i' = 0
                  /\ race_pc' = "loop"
                  /\ race_url' = NoUrl
                  /\ runners' = <<>>
                  /\ bust_calls' = 0
                  /\ events' = <<>>
                  /\ crawl_result' = [done |-> FALSE, rows |-> <<>>]
                  /\ UNCHANGED <<page, site, flaky_driver, day_outcomes, date_cur>>
    /\ UNCHANGED <<mode, start_date, end_date, driver, started, quits, date_last,
                   sess_rows, sess_pc, sess_result, fetchVars, enumVars, pipeVars>>

\* The return of _extract_for_single_date with the list of
\* _extract_from_race_cards, "all_race_data.extend(day_data)", and
\* "cur += timedelta(days=1)".
EndDate ==
    /\ sess_pc = "dates"
    /\ race_pc = "done"
    /\ sess_rows' = sess_rows \o crawl_result.rows
    /\ day_outcomes' = Append(day_outcomes,
                              IF NumRaces = 0 THEN "no_targets" ELSE "rows")
    /\ date_cur' = NextDay(date_cur)
    /\ race_pc' = "idle"
    /\ UNCHANGED <<mode, start_date, end_date, driver, started, quits, navs,
                   late_navs, date_last, dates_crawled, sess_pc, sess_result,
                   race_card_urls, race_i, page, race_url, runners, current_track,
                   cache_bust_counter, all_race_data, bust_calls, events,
                   crawl_result, site, flaky_driver, fetchVars, enumVars,
                   pipeVars>>

NextDateCrawls ==
    \/ BeginDate
    \/ BeginRace
    \/ ExtractRace
    \/ RetryRace
    \/ ReturnRaces
    \/ EndDate
    \/ FinishHistorical
    \/ Finally

DateCrawlsOnly == InitDateCrawls /\ FetchIdle /\ RestIdle

SpecDateCrawls == DateCrawlsOnly /\ [][NextDateCrawls]_vars

\* C37: every date of a historical call is crawled from a fresh state: its
\* crawl starts with current_track None, the bust counter at 0 and an empty
\* accepted list, so the first target of every date gets an aggressive bust
\* even when the date before ended on the same track, the accepted list of a
\* date never holds more than the targets of that date gave (nothing of an
\* earlier date is in the window of the staleness check), the counter counts
\* this date's targets only, and the records of a date are added after those
\* of the dates before it.
C37_FreshStatePerDate ==
    /\ [][(race_pc = "idle" /\ race_pc' = "loop") =>
             /\ current_track' = "None"
             /\ cache_bust_counter' = 0
             /\ all_race_data' = <<>>
             /\ race_i' = 0]_vars
    /\ [][(race_pc = "done" /\ race_pc' = "idle") =>
             sess_rows' = sess_rows \o all_race_data]_vars
    /\ []((race_pc = "loaded" /\ race_i = 0) => events[1] = "bust_aggressive")
    /\ [](race_pc # "idle" =>
             /\ Len(all_race_data) <= race_i
             /\ cache_bust_counter <= TargetsStarted)

\* The second date of a call is being crawled; the date before ended on the
\* track of this date's first target and gave the very record this target
\* gives, and the target was started with an aggressive bust and accepted on
\* its first attempt.
C37_Witness ==
    /\ Len(dates_crawled) = 2
    /\ race_pc = "loop"
    /\ race_i = 1
    /\ sess_rows # <<>>
    /\ all_race_data # <<>>
    /\ sess_rows[Len(sess_rows)] = all_race_data[1]
    /\ events[1] = "bust_aggressive"
    /\ Last(events) = "append"
    /\ bust_calls = 1

\* ------------------------------------------------- meeting enumeration

MaxLinks == 3

\* The meeting anchors a landing page or a results-list page can hold: the
\* href (id), the lines of the text of the name element, and whether the
\* anchor has an <h4>.
MeetingLinks ==
    { [id |-> 1, text |-> <<"Hove">>, h4 |-> TRUE],
      [id |-> 2, text |-> <<"Hove", "Evening">>, h4 |-> TRUE],
      [id |-> 3, text |-> <<"Crayford">>, h4 |-> TRUE],
      [id |-> 4, text |-> <<"Hove">>, h4 |-> FALSE] }

\* get_text().strip().split('\n')[0].strip(): the first line of the text.
TrackName(link) == link.text[1]

Seen_Never(track_name, done) == FALSE

\* "track_name in processed_meetings" / "track_name in processed".
Seen(track_name, done) == track_name \in done

\* Entry of _extract_race_card_urls (on the landing page) or of
\* _extract_results_meeting_links (on a results-list page).
InitEnum ==
    /\ enum_mode \in {"today", "historical"}
    /\ meeting_links \in SeqsUpTo(MeetingLinks, MaxLinks)
    /\ link_i = 0
    /\ processed = {}
    /\ enum_out = <<>>
    /\ enum_urls = <<>>
    /\ enum_pc = "loop"

\* One round of the loop of _extract_race_card_urls: an anchor without <h4> or
\* with a name already seen is passed over; otherwise the name is recorded and
\* the meeting page is loaded and its races added, unless that raises.
ProcessMeetingLink ==
    /\ enum_pc = "loop"
    /\ enum_mode = "today"
    /\ link_i < Len(meeting_links)
    /\ LET meeting_link == meeting_links[link_i + 1]
           track_name == TrackName(meeting_link)
       IN  IF ~meeting_link.h4 \/ Seen(track_name, processed)
           THEN UNCHANGED <<processed, enum_out, enum_urls>>
           ELSE /\ processed' = processed \cup {track_name}
                /\ enum_out' = Append(enum_out,
                                      [track |-> track_name, id |-> meeting_link.id])
                /\ \E raised \in BOOLEAN :
                     enum_urls' = IF raised THEN enum_urls
                                  ELSE Append(enum_urls,
                                              [track |-> track_name,
                                               meeting |-> meeting_link.id])
    /\ link_i' = link_i + 1
    /\ UNCHANGED <<enum_mode, meeting_links, enum_pc, fetchVars, crawlVars,
                   sessVars, pipeVars>>

\* One round of the loop of _extract_results_meeting_links: the name is the text
\* of the <h4>, the <strong> or the anchor; an anchor whose name was seen is
\* passed over, otherwise the name is recorded and the link appended.
CollectResultsLink ==
    /\ enum_pc = "loop"
    /\ enum_mode = "historical"
    /\ link_i < Len(meeting_links)
    /\ LET a == meeting_links[link_i + 1]
           track_name == TrackName(a)
       IN  IF Seen(track_name, processed)
           THEN UNCHANGED <<processed, enum_out>>
           ELSE /\ processed' = processed \cup {track_name}
                /\ enum_out' = Append(enum_out, [track |-> track_name, id |-> a.id])
    /\ link_i' = link_i + 1
    /\ UNCHANGED <<enum_mode, meeting_links, enum_urls, enum_pc, fetchVars,
                   crawlVars, sessVars, pipeVars>>

\* "return race_card_urls" / "return links".
ReturnEnum ==
    /\ enum_pc = "loop"
    /\ link_i = Len(meeting_links)
    /\ enum_pc' = "done"
    /\ UNCHANGED <<enum_mode, meeting_links, link_i, processed, enum_out,
                   enum_urls, fetchVars, crawlVars, sessVars, pipeVars>>

NextEnum ==
    \/ ProcessMeetingLink
    \/ CollectResultsLink
    \/ ReturnEnum

EnumOnly == InitEnum /\ FetchIdle /\ CrawlIdle /\ SessIdle /\ PipeIdle

SpecEnum == EnumOnly /\ [][NextEnum]_vars

\* Anchor j carries a track name: on the landing page the name is read from
\* the <h4> only.
Named(j) == enum_mode = "historical" \/ meeting_links[j].h4

\* Anchor j is the first anchor carrying its name.
FirstOfName(j) ==
    /\ Named(j)
    /\ \A k \in 1..(j - 1) :
          Named(k) => TrackName(meeting_links[k]) # TrackName(meeting_links[j])

\* C23: for any ordered list of meeting links, on the landing page and on the
\* results-list page, each distinct track name is taken exactly once, with the
\* first link carrying the name; later links with the name are dropped and
\* the meetings keep the order of the page.
C23_FirstOccurrenceWins ==
    LET firsts == {j \in 1..link_i : FirstOfName(j)}
    IN  /\ Len(enum_out) = Cardinality(firsts)
        /\ \A j \in firsts :
              \E k \in 1..Len(enum_out) :
                  /\ enum_out[k] = [track |-> TrackName(meeting_links[j]),
                                    id |-> meeting_links[j].id]
                  /\ k = Cardinality({i \in firsts : i <= j})
        /\ \A k, l \in 1..Len(enum_out) :
              k # l => enum_out[k].track # enum_out[l].track
        /\ processed = {enum_out[k].track : k \in 1..Len(enum_out)}

\* C23 witness: the landing page had the links Hove, Hove, Crayford and two
\* tracks were enumerated, Hove through its first link.
C23_Witness ==
    /\ enum_mode = "today"
    /\ enum_pc = "done"
    /\ [j \in 1..Len(meeting_links) |-> TrackName(meeting_links[j])]
          = <<"Hove", "Hove", "Crayford">>
    /\ meeting_links[1].id # meeting_links[2].id
    /\ enum_out = <<[track |-> "Hove", id |-> meeting_links[1].id],
                    [track |-> "Crayford", id |-> meeting_links[3].id]>>

\* ------------------------------------------------- pipeline

MaxRaceRows == 2

MaxStatRows == 2

\* The date arguments a run can be given.
PipeDates == {NoneDate, EmptyDate, DateString(2025, 9, 5), DateString(2025, 9, 7)}

\* Values a callee can hand back besides a frame.
Raised == [kind |-> "raised", n |-> 0]

\* "x is None or x.empty".
NoneOrEmpty(df) == df.kind = "None" \/ df.n = 0

\* What _extract_race_cards and _extract_dog_statistics return for what the
\* extractor gave: None for None, an empty frame or any exception (of the
\* extractor or of to_csv), the frame otherwise.
StepValue(got, csv_ok) ==
    IF got.kind = "raised" \/ NoneOrEmpty(got) \/ ~csv_ok THEN NoFrame ELSE got

AbortOnRaces_Never(df) == FALSE

\* "if race_data is None or race_data.empty: ... return False".
AbortOnRaces(df) == NoneOrEmpty(df)

\* "if dog_stats is None:" only logs a warning.
AbortOnStats(df) == FALSE

\* A call of run_full_pipeline.
InitPipeline ==
    /\ pipe_mode \in {"today", "historical"}
    /\ pipe_start \in PipeDates
    /\ pipe_end \in PipeDates
    /\ pipe_mode = "today" => (pipe_start = NoneDate /\ pipe_end = NoneDate)
    /\ race_data = Unset
    /\ dog_stats = Unset
    /\ featured = Unset
    /\ stages = <<>>
    /\ warned = FALSE
    /\ pipe_pc = "races"
    /\ pipe_result = "none"

\* Step 1 and its gate: _extract_race_cards (the ValueError of a historical
\* run without dates is caught inside it), then the abort on no data.
ExtractRaceCards ==
    /\ pipe_pc = "races"
    /\ stages' = Append(stages, "race_cards")
    /\ \E got \in {Raised, NoFrame} \cup {Frame(n) : n \in 0..MaxRaceRows},
          csv_ok \in BOOLEAN :
         /\ (pipe_mode = "historical" /\ Falsy(pipe_start) /\ Falsy(pipe_end))
               => (got = Raised /\ csv_ok)
         /\ (got.kind # "df" \/ got.n = 0) => csv_ok
         /\ race_data' = StepValue(got, csv_ok)
         /\ IF AbortOnRaces(StepValue(got, csv_ok))
            THEN pipe_pc' = "returned" /\ pipe_result' = "False"
            ELSE pipe_pc' = "stats" /\ UNCHANGED pipe_result
    /\ UNCHANGED <<pipe_mode, pipe_start, pipe_end, dog_stats, featured, warned,
                   fetchVars, crawlVars, sessVars, enumVars>>

\* Step 2: _extract_dog_statistics, best effort, and the warning.
ExtractDogStatistics ==
    /\ pipe_pc = "stats"
    /\ stages' = Append(stages, "dog_stats")
    /\ \E got \in {Raised, NoFrame} \cup {Frame(n) : n \in 0..MaxStatRows},
          csv_ok \in BOOLEAN :
         /\ (got.kind # "df" \/ got.n = 0) => csv_ok
         /\ dog_stats' = StepValue(got, csv_ok)
         /\ warned' = (StepValue(got, csv_ok).kind = "None")
         /\ IF AbortOnStats(StepValue(got, csv_ok))
            THEN pipe_pc' = "returned" /\ pipe_result' = "False"
            ELSE pipe_pc' = "features" /\ UNCHANGED pipe_result
    /\ UNCHANGED <<pipe_mode, pipe_start, pipe_end, race_data, featured,
                   fetchVars, crawlVars, sessVars, enumVars>>

\* Step 3 and its gate: engineer_features on the race records (merged with
\* the statistics when there are some) and the two output files; an empty
\* result or any exception makes the step False and the run fail.
EngineerFeatures ==
    /\ pipe_pc = "features"
    /\ stages' = Append(stages, "features")
    /\ \E how \in {"ok", "empty", "raised"} :
         /\ featured' = IF how = "ok" THEN Frame(race_data.n)
                        ELSE IF how = "empty" THEN Frame(0)
                        ELSE NoFrame
         /\ IF how = "ok"
            THEN pipe_pc' = "summary" /\ UNCHANGED pipe_result
            ELSE pipe_pc' = "returned" /\ pipe_result' = "False"
    /\ UNCHANGED <<pipe_mode, pipe_start, pipe_end, race_data, dog_stats, warned,
                   fetchVars, crawlVars, sessVars, enumVars>>

\* Step 4: the summary report (its errors are logged only), then True.
GenerateSummaryReport ==
    /\ pipe_pc = "summary"
    /\ stages' = Append(stages, "summary")
    /\ pipe_pc' = "returned"
    /\ pipe_result' = "True"
    /\ UNCHANGED <<pipe_mode, pipe_start, pipe_end, race_data, dog_stats,
                   featured, warned, fetchVars, crawlVars, sessVars, enumVars>>

NextPipeline ==
    \/ ExtractRaceCards
    \/ ExtractDogStatistics
    \/ EngineerFeatures
    \/ GenerateSummaryReport

PipelineOnly == InitPipeline /\ FetchIdle /\ CrawlIdle /\ SessIdle /\ EnumIdle

SpecPipeline == PipelineOnly /\ [][NextPipeline]_vars

Started(stage) == \E j \in 1..Len(stages) : stages[j] = stage

\* C25: a race crawl that failed or came back empty makes the run return
\* False with neither the dog-statistics step nor the feature step started;
\* a dog-statistics step that failed or came back empty only logs a warning:
\* the feature step still starts, works on the race records, and the run
\* returns True when it succeeds.
C25_StageGating ==
    /\ (Started("dog_stats") \/ Started("features"))
          => (race_data.kind = "df" /\ race_data.n > 0)
    /\ (pipe_pc = "returned" /\ NoneOrEmpty(race_data))
          => (pipe_result = "False" /\ stages = <<"race_cards">>)
    /\ (pipe_pc \in {"features", "summary", "returned"} /\ Started("dog_stats"))
          => (warned <=> dog_stats.kind = "None")
    /\ (pipe_pc = "returned" /\ Started("dog_stats")) => Started("features")
    /\ (pipe_pc = "returned" /\ Started("features")) =>
          (pipe_result = "True" <=> featured = Frame(race_data.n))

\* C25 witness: a run whose dog-statistics step gave nothing logged the
\* warning, engineered the features of its two race records and returned True.
C25_Witness ==
    /\ pipe_pc = "returned"
    /\ race_data = Frame(MaxRaceRows)
    /\ dog_stats = NoFrame
    /\ warned
    /\ stages = <<"race_cards", "dog_stats", "features", "summary">>
    /\ pipe_result = "True"

=============================================================================
